---- MODULE Spec2Model ----
(***************************************************************************)
(* TEKNO-M1X Pro: the beat-grid locker (services/beatParser.ts), the mix   *)
(* engine and the analysis engine (services/mixEngine.ts) and the App's    *)
(* analysis / mix handlers (App.tsx), as state machines.                   *)
(*                                                                         *)
(* Numbers.  The code computes in IEEE doubles; the model computes in      *)
(* exact integers over fixed units, chosen so that every quotient the      *)
(* code forms on the modelled inputs is exact:                             *)
(*   - grid and cue times are in ticks, TPS ticks to the second;           *)
(*   - tempi are in hundredths of a BPM; confidences in hundredths;        *)
(*   - mix-timeline times are in mix ticks, TPS * TARGET_BPM to the second.*)
(* NaN is the string "NaN"; every comparison with it is FALSE, as in JS.   *)
(***************************************************************************)
EXTENDS Integers, Sequences, FiniteSets, TLC

VARIABLES
    gridPc,     \* getLockedGrid: "idle", "called" or "returned"
    gridArgs,   \* getLockedGrid: the call's arguments
    grid        \* getLockedGrid: the returned BeatGrid

VARIABLES
    tempoPc,    \* tempo estimation of one analysis: "idle", "called" or "returned"
    tempoArgs,  \* the backend and the raw estimates of the two detectors
    tempo       \* the tempo, confidence and phase offset the analysis settles on

VARIABLES
    choosePc,   \* chooseTechnique: "idle", "called" or "returned"
    chooseArgs, \* the style and the draw of Math.random()
    chosen      \* the technique returned, and the profile entry it came from

VARIABLES
    stretchPc,   \* InternalTimeStretcher.process: "idle", "called" or "returned"
    stretchArgs, \* the input buffer and the speed ratio
    stretched    \* the returned buffer and the positions the loop visited

VARIABLES
    cuePc,      \* detectCuePoints: "idle", "called" or "returned"
    cueArgs,    \* the beat grid, the low-band energy profile and the duration
    cuePoints   \* the returned CuePoints

VARIABLES
    currentStep,      \* App: 0 Upload, 1 Analyze, 2 Configure, 3 Export
    tracks,           \* App: the playlist
    isProcessing,     \* App
    analysisComplete, \* App
    processLog,       \* App: the status line, as its parts
    selectedStyle,    \* App
    mixResult         \* App: the MixResult, NoMixResult for null

VARIABLES
    analysisPc,     \* startAnalysis: "idle", "loop", "analyzing", "settled" or "done"
    analyzedTracks, \* startAnalysis: its copy of the playlist
    analysisIndex,  \* startAnalysis: the loop index i, from 1
    analysis,       \* the settled promise of analyzeTrack
    analyzeCalls    \* the calls of analyzeTrack in this session, with their outcome

VARIABLES
    mixPc,           \* renderMix: "idle", "called", "prepare", "timeline",
                     \* "schedule", "rendering", "returned" or "thrown"
    mixCaller,       \* "App" when generateMix awaits the call
    mixArgs,         \* renderMix: tracks, config.style and config.targetBpm
    prepared,        \* renderMix: the valid tracks the preparation has handled
    processedTracks, \* renderMix
    timelineEvents,  \* renderMix
    cursor,          \* renderMix
    mixTotalDuration, \* renderMix: totalDuration
    mixThrown,       \* the message of the error renderMix threw
    mixReturn,       \* the MixResult renderMix returned
    schedule         \* renderMix: what the schedule loop has asked of the context

VARIABLES
    scriptsLoaded, \* whether window.Essentia and window.EssentiaWASM are defined
    initPromise,   \* AnalysisEngine: the run of inits it holds, 0 for null
    inits,         \* the runs of initializeEssentia
    engineReady,   \* AnalysisEngine: isReady
    useLiteMode,   \* AnalysisEngine
    essentia,      \* AnalysisEngine: whether the Essentia instance is set
    calls          \* the analyzeTrack calls

VARIABLES
    wavePc,   \* "idle", "called" or "returned"
    waveArgs, \* bufferToWave: the AudioBuffer
    wave      \* the returned file: its size and its bytes

gridVars == <<gridPc, gridArgs, grid>>
waveVars == <<wavePc, waveArgs, wave>>
engineVars == <<scriptsLoaded, initPromise, inits, engineReady, useLiteMode, essentia,
                calls>>
appState == <<currentStep, tracks, isProcessing, analysisComplete, processLog,
              selectedStyle, mixResult>>
batchVars == <<analysisPc, analyzedTracks, analysisIndex, analysis, analyzeCalls>>
mixVars == <<mixPc, mixCaller, mixArgs, prepared, processedTracks, timelineEvents,
             cursor, mixTotalDuration, mixThrown, mixReturn, schedule>>
appVars == <<appState, batchVars, mixVars>>
cueVars == <<cuePc, cueArgs, cuePoints>>
chooseVars == <<choosePc, chooseArgs, chosen>>
stretchVars == <<stretchPc, stretchArgs, stretched>>
tempoVars == <<tempoPc, tempoArgs, tempo>>
vars == <<gridVars, tempoVars, chooseVars, stretchVars, cueVars, appVars, engineVars,
          waveVars>>

\* every component but g keeps its state
OnlyChanges(g) ==
    /\ IF g = "grid" THEN TRUE ELSE UNCHANGED gridVars
    /\ IF g = "tempo" THEN TRUE ELSE UNCHANGED tempoVars
    /\ IF g = "choose" THEN TRUE ELSE UNCHANGED chooseVars
    /\ IF g = "stretch" THEN TRUE ELSE UNCHANGED stretchVars
    /\ IF g = "cue" THEN TRUE ELSE UNCHANGED cueVars
    /\ IF g = "app" THEN TRUE ELSE UNCHANGED appVars
    /\ IF g = "engine" THEN TRUE ELSE UNCHANGED engineVars
    /\ IF g = "wave" THEN TRUE ELSE UNCHANGED waveVars

Min(a, b) == IF a < b THEN a ELSE b
Max(a, b) == IF a > b THEN a ELSE b
Abs(a) == IF a < 0 THEN -a ELSE a

(***************************************************************************)
(* Bounds of the model.                                                    *)
(***************************************************************************)
MaxOnsets == 3
\* Math.random() is drawn from k / RandomSteps, k in 0..RandomSteps-1
RandomSteps == 20

RECURSIVE Gcd(_, _)
Gcd(a, b) == IF b = 0 THEN a ELSE Gcd(b, a % b)

RECURSIVE LcmUpTo(_)
LcmUpTo(n) == IF n <= 1 THEN 1 ELSE (LcmUpTo(n - 1) * n) \div Gcd(LcmUpTo(n - 1), n)

\* Ticks per millisecond: every mean over at most MaxOnsets onsets is exact.
Scale == LcmUpTo(MaxOnsets)
\* Ticks per second.
TPS == 1000 * Scale
Ms(x) == x * Scale
Sec(x) == x * TPS

(***************************************************************************)
(* BeatParser.getLockedGrid (beatParser.ts)                                *)
(***************************************************************************)

\* const idealInterval = 60 / detectedBpm;   (bpm in whole BPM here)
idealInterval(detectedBpm) == (60 * TPS) \div detectedBpm

\* phaseSum over the first n onsets: rawBeats[i] - i * idealInterval, i from 0
RECURSIVE phaseSum(_, _, _)
phaseSum(rawBeats, interval, n) ==
    IF n = 0 THEN 0
    ELSE phaseSum(rawBeats, interval, n - 1) + (rawBeats[n] - ((n - 1) * interval))

sampleSize(rawBeats) == Min(Len(rawBeats), 32)

\* step 2 of getLockedGrid: the phase, by priority
averageOffsetMutant(rawBeats, detectedBpm, forcedOffset) ==
    IF forcedOffset # Sec(-1) THEN forcedOffset
    ELSE IF Len(rawBeats) >= 2
         THEN phaseSum(rawBeats, idealInterval(detectedBpm), sampleSize(rawBeats))
                  \div sampleSize(rawBeats)
         ELSE 0

averageOffset(rawBeats, detectedBpm, forcedOffset) ==
    IF forcedOffset >= 0 THEN forcedOffset
    ELSE IF Len(rawBeats) >= 2
         THEN phaseSum(rawBeats, idealInterval(detectedBpm), sampleSize(rawBeats))
                  \div sampleSize(rawBeats)
         ELSE 0

\* while (t < 0) t += idealInterval;
RECURSIVE normalizeUp(_, _)
normalizeUp(t, interval) == IF t < 0 THEN normalizeUp(t + interval, interval) ELSE t

\* while (t > idealInterval) t -= idealInterval;
RECURSIVE normalizeDown(_, _)
normalizeDown(t, interval) ==
    IF t > interval THEN normalizeDown(t - interval, interval) ELSE t

\* the first beat: let t = averageOffset, normalized by the two loops
firstBeatMutant(avg, interval) == normalizeUp(avg, interval) + interval

firstBeat(avg, interval) == normalizeDown(normalizeUp(avg, interval), interval)

\* while (t < totalDuration) { push t; if (beatCount % 4 === 0) push downbeat;
\*                             t += idealInterval; beatCount++; }
\* After k iterations t = t0 + k * interval and beatCount = k.  The number of
\* iterations is the first k at which the guard t < totalDuration fails.
iterationsMutant(t0, interval, totalDuration) ==
    CHOOSE n \in 0..(Max(totalDuration, 0) \div interval + 2) :
        /\ ~(t0 + n * interval <= totalDuration)
        /\ \A k \in 0..(n - 1) : t0 + k * interval <= totalDuration

iterations(t0, interval, totalDuration) ==
    CHOOSE n \in 0..(Max(totalDuration, 0) \div interval + 2) :
        /\ ~(t0 + n * interval < totalDuration)
        /\ \A k \in 0..(n - 1) : t0 + k * interval < totalDuration

gridLoop(t0, interval, totalDuration) ==
    LET n == iterations(t0, interval, totalDuration)
        pushed == [k \in 1..n |-> [t |-> t0 + (k - 1) * interval, beatCount |-> k - 1]]
        isDownbeat(e) == e.beatCount % 4 = 0
        down == SelectSeq(pushed, isDownbeat)
    IN [beats |-> [k \in 1..n |-> pushed[k].t],
        downbeats |-> [k \in 1..Len(down) |-> down[k].t]]

\* the whole call; offset is averageOffset * 1000 (milli-ticks)
getLockedGrid(rawBeats, detectedBpm, totalDuration, forcedOffset) ==
    LET interval == idealInterval(detectedBpm)
        avg == averageOffset(rawBeats, detectedBpm, forcedOffset)
        g == gridLoop(firstBeat(avg, interval), interval, totalDuration)
    IN [bpm |-> detectedBpm, offset |-> avg * 1000,
        beats |-> g.beats, downbeats |-> g.downbeats]

\* Inputs of the grid specification (times in ms, turned into ticks).
GridBpms == {60, 120, 125}
GridDurationsMs == {1, 480, 1000, 2600, 5000, 40000}
GridOffsetsMs == {-1000, -700, -1, 0, 250, 480, 500, 1000, 1700, 3000}
OnsetTimesMs == {0, 400, 520, 980, 1500}

RECURSIVE IsIncreasing(_)
IsIncreasing(s) ==
    IF Len(s) <= 1 THEN TRUE ELSE s[1] < s[2] /\ IsIncreasing(Tail(s))

\* the onset ticks of the rhythm extractor: increasing times >= 0
OnsetSeqs ==
    { s \in UNION { [1..n -> {Ms(x) : x \in OnsetTimesMs}] : n \in 0..MaxOnsets } :
        IsIncreasing(s) }

\* the BeatGrid of a track that was never analysed (App.tsx handleFileUpload)
EmptyGrid == [bpm |-> 0, offset |-> 0, beats |-> <<>>, downbeats |-> <<>>]
NoGridArgs == [rawBeats |-> <<>>, bpm |-> 0, duration |-> 0, forcedOffset |-> 0]

GridIdle == gridPc = "idle" /\ gridArgs = NoGridArgs /\ grid = EmptyGrid

GridInit ==
    /\ gridPc = "called"
    /\ gridArgs \in [rawBeats : OnsetSeqs, bpm : GridBpms,
                     duration : {Ms(x) : x \in GridDurationsMs},
                     forcedOffset : {Ms(x) : x \in GridOffsetsMs}]
    /\ grid = EmptyGrid

GetLockedGrid ==
    /\ gridPc = "called"
    /\ gridPc' = "returned"
    /\ grid' = getLockedGrid(gridArgs.rawBeats, gridArgs.bpm, gridArgs.duration,
                             gridArgs.forcedOffset)
    /\ UNCHANGED gridArgs
    /\ OnlyChanges("grid")


(***************************************************************************)
(* C1: for bpm > 0 and duration > 0 the returned beats are strictly        *)
(* increasing with constant spacing 60/bpm, the first beat is >= 0, the    *)
(* last beat is < duration, and downbeats is exactly beats[0], beats[4],   *)
(* beats[8], ...                                                           *)
(***************************************************************************)
EveryFourth(beats) ==
    [k \in 1..((Len(beats) + 3) \div 4) |-> beats[4 * (k - 1) + 1]]

IsEmptyScenario ==
    /\ gridPc = "returned"
    /\ gridArgs.rawBeats = <<>>
    /\ gridArgs.forcedOffset < 0
    /\ gridArgs.bpm = 125
    /\ gridArgs.duration = Sec(40)

EmptyScenarioGrid ==
    IsEmptyScenario =>
        /\ grid.offset = 0
        /\ grid.beats[1] = 0
        /\ Len(grid.beats) = 84
        /\ Len(grid.downbeats) = 21

EmptyScenarioGridWitness ==
    /\ IsEmptyScenario
    /\ grid.beats[84] = Ms(39840)
    /\ grid.downbeats[21] = Ms(38400)

\* C17 as stated: phase 0, exactly 83 beats and exactly 21 downbeats
EmptyScenarioGridAsStated ==
    IsEmptyScenario =>
        /\ grid.offset = 0
        /\ grid.beats[1] = 0
        /\ Len(grid.beats) = 83
        /\ Len(grid.downbeats) = 21

(***************************************************************************)
(* C23: the phase getLockedGrid reports (offset, in thousandths) is chosen *)
(* by priority: an external offset >= 0 is used as it is; otherwise, with  *)
(* at least 2 onsets, it is the mean of onset[i] - i * (60/bpm) over the   *)
(* first min(n, 32) onsets; otherwise it is 0.  A call without onsets, as  *)
(* the reduced backend makes it, reports the detector's offset.            *)
(***************************************************************************)
RECURSIVE onsetSum(_, _)
onsetSum(onsets, n) == IF n = 0 THEN 0 ELSE onsetSum(onsets, n - 1) + onsets[n]

\* n times the mean residual of the first n onsets
residualSum(onsets, bpm, n) ==
    onsetSum(onsets, n) - ((60 * TPS) \div bpm) * ((n * (n - 1)) \div 2)

PhaseNormalized ==
    gridPc = "returned" =>
        /\ 0 <= grid.offset
        /\ grid.offset < idealInterval(gridArgs.bpm) * 1000
        /\ Len(grid.beats) > 0 =>
              /\ 0 <= grid.beats[1]
              /\ grid.beats[1] < idealInterval(gridArgs.bpm)

(***************************************************************************)
(* Tempo consensus and folding: AnalysisEngine.analyzeTrack (full backend) *)
(* and AnalysisEngine.analyzeLite (reduced backend), mixEngine.ts.         *)
(* A JS number is [nan, v]: v in hundredths of a BPM (or of 1 for a        *)
(* confidence); every comparison with NaN is false.                        *)
(***************************************************************************)
Num(x) == [nan |-> FALSE, v |-> x]
NaN == [nan |-> TRUE, v |-> 0]
JLt(a, b) == ~a.nan /\ ~b.nan /\ a.v < b.v
JGt(a, b) == ~a.nan /\ ~b.nan /\ a.v > b.v
JIsZero(a) == ~a.nan /\ a.v = 0
JTimes2(a) == IF a.nan THEN NaN ELSE Num(a.v * 2)
JHalf(a) == IF a.nan THEN NaN ELSE Num(a.v \div 2)
JMean(a, b) == IF a.nan \/ b.nan THEN NaN ELSE Num((a.v + b.v) \div 2)
JAbsDiff(a, b) == IF a.nan \/ b.nan THEN NaN ELSE Num(Abs(a.v - b.v))

\* analyzeTrack, "Detector Refinement": guess is [ok, bpm, offset]
consensusMutant(essentiaBpm, confidence0, guess) ==
    IF ~guess.ok
    THEN [bpm |-> essentiaBpm, offset |-> -1, confidence |-> confidence0]
    ELSE IF JLt(JAbsDiff(guess.bpm, essentiaBpm), Num(200))
    THEN [bpm |-> JMean(guess.bpm, essentiaBpm), offset |-> guess.offset,
          confidence |-> Min(confidence0 + 20, 99)]
    ELSE [bpm |-> essentiaBpm, offset |-> -1,
          confidence |-> Max(confidence0 - 20, 10)]

consensus(essentiaBpm, confidence0, guess) ==
    IF ~guess.ok
    THEN [bpm |-> essentiaBpm, offset |-> -1, confidence |-> confidence0]
    ELSE IF JLt(JAbsDiff(guess.bpm, essentiaBpm), Num(200))
    THEN [bpm |-> JMean(guess.bpm, essentiaBpm), offset |-> guess.offset,
          confidence |-> Min(confidence0 + 20, 99)]
    ELSE IF JLt(JAbsDiff(JTimes2(guess.bpm), essentiaBpm), Num(300))
    THEN [bpm |-> essentiaBpm, offset |-> guess.offset,
          confidence |-> Max(confidence0, 70)]
    ELSE IF JLt(JAbsDiff(JHalf(guess.bpm), essentiaBpm), Num(300))
    THEN [bpm |-> essentiaBpm, offset |-> guess.offset,
          confidence |-> Max(confidence0, 70)]
    ELSE [bpm |-> essentiaBpm, offset |-> -1,
          confidence |-> Max(confidence0 - 20, 10)]

\* if (x < 80) x *= 2;   then   if (x > 160) x /= 2;
foldOctave(bpm) ==
    LET doubled == IF JLt(bpm, Num(8000)) THEN JTimes2(bpm) ELSE bpm
    IN IF JGt(doubled, Num(16000)) THEN JHalf(doubled) ELSE doubled

\* analyzeTrack, "Normalization & Fallback"
normalizeFull(c) ==
    LET b == foldOctave(c.bpm)
    IN IF JLt(b, Num(6000)) \/ b.nan \/ JIsZero(b)
       THEN [bpm |-> Num(12500), offset |-> c.offset, confidence |-> 10]
       ELSE [bpm |-> b, offset |-> c.offset, confidence |-> c.confidence]

\* analyzeLite, "Normalize BPM"
normalizeLite(c) ==
    LET b == foldOctave(c.bpm)
    IN IF b.nan \/ JIsZero(b)
       THEN [bpm |-> Num(12500), offset |-> c.offset, confidence |-> c.confidence]
       ELSE [bpm |-> b, offset |-> c.offset, confidence |-> c.confidence]

\* let confidence = rhythm.confidence || 0.5;
rhythmConfidence(c) == IF c = 0 THEN 50 ELSE c

\* the tempo part of analyzeTrack's full branch
analyzeTrackTempo(essentiaBpm, rawConfidence, guess) ==
    normalizeFull(consensus(essentiaBpm, rhythmConfidence(rawConfidence), guess))

\* the tempo part of analyzeLite
analyzeLiteTempo(guess) ==
    normalizeLite(IF guess.ok
                  THEN [bpm |-> guess.bpm, offset |-> guess.offset, confidence |-> 60]
                  ELSE [bpm |-> Num(12500), offset |-> 0, confidence |-> 30])

\* Raw tempo estimates, in whole BPM: <= 0, below 40, in range, above 320.
RawBpms == {-20, 0, 20, 39, 50, 62, 79, 80, 100, 124, 125, 126, 160, 161, 250, 320, 322, 400}
RawTempi == {Num(100 * b) : b \in RawBpms} \cup {NaN}
GuessTempi == {Num(100 * b) : b \in {0, 20, 60, 62, 125, 127, 250, 400}} \cup {NaN}
RawConfidences == {0, 20, 50, 90}
Guesses ==
    {[ok |-> FALSE, bpm |-> Num(0), offset |-> 0]}
        \cup [ok : {TRUE}, bpm : GuessTempi, offset : {0, Ms(130)}]

NoTempoArgs ==
    [backend |-> "none", essentiaBpm |-> Num(0), confidence |-> 0,
     guess |-> [ok |-> FALSE, bpm |-> Num(0), offset |-> 0]]
NoTempo == [bpm |-> Num(0), offset |-> 0, confidence |-> 0]

TempoIdle == tempoPc = "idle" /\ tempoArgs = NoTempoArgs /\ tempo = NoTempo

TempoInit ==
    /\ tempoPc = "called"
    /\ tempoArgs \in
          [backend : {"full"}, essentiaBpm : RawTempi, confidence : RawConfidences,
           guess : Guesses]
          \cup [backend : {"lite"}, essentiaBpm : {Num(0)}, confidence : {0},
                guess : Guesses]
    /\ tempo = NoTempo

AnalyzeTempoFull ==
    /\ tempoPc = "called"
    /\ tempoArgs.backend = "full"
    /\ tempoPc' = "returned"
    /\ tempo' = analyzeTrackTempo(tempoArgs.essentiaBpm, tempoArgs.confidence,
                                  tempoArgs.guess)
    /\ UNCHANGED tempoArgs
    /\ OnlyChanges("tempo")

AnalyzeTempoLite ==
    /\ tempoPc = "called"
    /\ tempoArgs.backend = "lite"
    /\ tempoPc' = "returned"
    /\ tempo' = analyzeLiteTempo(tempoArgs.guess)
    /\ UNCHANGED tempoArgs
    /\ OnlyChanges("tempo")

(***************************************************************************)
(* C5: for every track analysis, by the full or by the reduced backend,    *)
(* and for every raw tempo estimate, the tempo after folding satisfies     *)
(* 60 <= bpm <= 160, or it equals the 125 fallback and the confidence is   *)
(* exactly 0.1.                                                            *)
(***************************************************************************)
OctaveCorrection ==
    tempoPc = "returned" =>
        \/ /\ ~tempo.bpm.nan
           /\ 6000 <= tempo.bpm.v
           /\ tempo.bpm.v <= 16000
        \/ /\ tempo.bpm = Num(12500)
           /\ tempo.confidence = 10

(***************************************************************************)
(* C24: in the full backend, for a primary tempo e, a secondary tempo b    *)
(* and a primary confidence c: if |b - e| < 2 the consensus is (b + e)/2   *)
(* with the secondary offset and confidence min(c + 0.2, 0.99); else if    *)
(* 2b or b/2 is within 3 BPM of e it is e with the secondary offset and    *)
(* confidence max(c, 0.7); otherwise it is e without an offset and         *)
(* confidence max(c - 0.2, 0.1).  The analysis returns this consensus      *)
(* after the octave folding.                                               *)
(***************************************************************************)
isWithin(x, y, tolerance) == ~x.nan /\ ~y.nan /\ Abs(x.v - y.v) < tolerance

\* the three rules; nearOctave tells whether b counts as an octave of e
statedConsensus(e, c, b, offset, nearOctave) ==
    IF isWithin(b, e, 200)
    THEN [bpm |-> Num((b.v + e.v) \div 2), offset |-> offset,
          confidence |-> Min(c + 20, 99)]
    ELSE IF nearOctave
    THEN [bpm |-> e, offset |-> offset, confidence |-> Max(c, 70)]
    ELSE [bpm |-> e, offset |-> -1, confidence |-> Max(c - 20, 10)]

ConsensusRules ==
    (tempoPc = "returned" /\ tempoArgs.backend = "full" /\ tempoArgs.guess.ok) =>
        LET e == tempoArgs.essentiaBpm
            b == tempoArgs.guess.bpm
            c == rhythmConfidence(tempoArgs.confidence)
            twice == IF b.nan THEN b ELSE Num(2 * b.v)
            doubleE == IF e.nan THEN e ELSE Num(2 * e.v)
            \* |2b - e| < 3 or |b/2 - e| < 3
            nearOctave == isWithin(twice, e, 300) \/ isWithin(b, doubleE, 600)
            stated == statedConsensus(e, c, b, tempoArgs.guess.offset, nearOctave)
        IN /\ consensus(e, c, tempoArgs.guess) = stated
           /\ tempo = normalizeFull(stated)

\* primary 125 BPM at confidence 0.2, secondary 250 BPM with offset 0.13 s
ConsensusRulesWitness ==
    /\ tempoPc = "returned"
    /\ tempoArgs.backend = "full"
    /\ tempoArgs.essentiaBpm = Num(12500)
    /\ tempoArgs.confidence = 20
    /\ tempoArgs.guess = [ok |-> TRUE, bpm |-> Num(25000), offset |-> Ms(130)]
    /\ tempo = [bpm |-> Num(12500), offset |-> Ms(130), confidence |-> 70]

\* C24 as stated: b within 3 BPM of e/2 or of 2e
ConsensusRulesAsStated ==
    (tempoPc = "returned" /\ tempoArgs.backend = "full" /\ tempoArgs.guess.ok) =>
        LET e == tempoArgs.essentiaBpm
            b == tempoArgs.guess.bpm
            c == rhythmConfidence(tempoArgs.confidence)
            twice == IF b.nan THEN b ELSE Num(2 * b.v)
            doubleE == IF e.nan THEN e ELSE Num(2 * e.v)
            \* |b - e/2| < 3 or |b - 2e| < 3
            nearOctave == isWithin(twice, e, 600) \/ isWithin(b, doubleE, 300)
            stated == statedConsensus(e, c, b, tempoArgs.guess.offset, nearOctave)
        IN /\ consensus(e, c, tempoArgs.guess) = stated
           /\ tempo = normalizeFull(stated)

(***************************************************************************)
(* MixEngine.chooseTechnique and STYLE_PROFILES (mixEngine.ts).            *)
(* Weights are in hundredths.                                              *)
(***************************************************************************)
DEFAULT_TECHNIQUE == "SLOW_EQ_BLEND"

STYLE_PROFILES ==
    [CAROLA |-> <<[tech |-> "LONG_BLEND", weight |-> 50],
                  [tech |-> "BASS_SWAP", weight |-> 40],
                  [tech |-> "SLOW_EQ_BLEND", weight |-> 10]>>,
     MILLS |-> <<[tech |-> "HARD_CUT", weight |-> 40],
                 [tech |-> "LOOP_ECHO", weight |-> 30],
                 [tech |-> "DROP_SWAP", weight |-> 20],
                 [tech |-> "FILTER_SWEEP", weight |-> 10]>>,
     GARNIER |-> <<[tech |-> "FILTER_SWEEP", weight |-> 50],
                   [tech |-> "SLOW_EQ_BLEND", weight |-> 30],
                   [tech |-> "LONG_BLEND", weight |-> 20]>>,
     SANCHEZ |-> <<[tech |-> "PHRASE_MIXING", weight |-> 40],
                   [tech |-> "LOOP_ECHO", weight |-> 30],
                   [tech |-> "SLOW_EQ_BLEND", weight |-> 30]>>,
     SOLOMUN |-> <<[tech |-> "LONG_BLEND", weight |-> 60],
                   [tech |-> "DROP_SWAP", weight |-> 30],
                   [tech |-> "BASS_SWAP", weight |-> 10]>>,
     SIMS |-> <<[tech |-> "HARD_CUT", weight |-> 30],
                [tech |-> "DROP_SWAP", weight |-> 40],
                [tech |-> "ECHO_OUT", weight |-> 30]>>,
     MAY |-> <<[tech |-> "BASS_SWAP", weight |-> 40],
               [tech |-> "SLOW_EQ_BLEND", weight |-> 40],
               [tech |-> "FILTER_SWEEP", weight |-> 20]>>]

KnownStyles == DOMAIN STYLE_PROFILES
\* a style value with no entry in STYLE_PROFILES
UnknownStyle == "UNKNOWN"

\* profile.reduce((sum, item) => sum + item.weight, 0)
RECURSIVE totalWeight(_)
totalWeight(profile) ==
    IF profile = <<>> THEN 0 ELSE Head(profile).weight + totalWeight(Tail(profile))

\* for (const item of profile) { if (random < item.weight) return item.tech;
\*                               random -= item.weight; }
\* the index of the entry returned, 0 when the loop falls through.
\* random is in 1/RandomSteps of a hundredth, as is weight * RandomSteps.
RECURSIVE walkProfileMutant(_, _, _)
walkProfileMutant(profile, random, k) ==
    IF k > Len(profile) THEN 0
    ELSE IF random < profile[k].weight * RandomSteps THEN k
    ELSE walkProfileMutant(profile, random, k + 1)

RECURSIVE walkProfile(_, _, _)
walkProfile(profile, random, k) ==
    IF k > Len(profile) THEN 0
    ELSE IF random < profile[k].weight * RandomSteps THEN k
    ELSE walkProfile(profile, random - profile[k].weight * RandomSteps, k + 1)

\* chooseTechnique(style), with Math.random() = draw / RandomSteps
chooseTechnique(style, draw) ==
    IF style \notin KnownStyles
    THEN [tech |-> DEFAULT_TECHNIQUE, entry |-> 0]
    ELSE LET profile == STYLE_PROFILES[style]
             random == draw * totalWeight(profile)
             k == walkProfile(profile, random, 1)
         IN IF k = 0 THEN [tech |-> DEFAULT_TECHNIQUE, entry |-> 0]
            ELSE [tech |-> profile[k].tech, entry |-> k]

Draws == 0..(RandomSteps - 1)
NoChooseArgs == [style |-> "none", draw |-> 0]
NoChoice == [tech |-> "none", entry |-> 0]

ChooseIdle == choosePc = "idle" /\ chooseArgs = NoChooseArgs /\ chosen = NoChoice

ChooseInit ==
    /\ choosePc = "called"
    /\ chooseArgs \in [style : KnownStyles \cup {UnknownStyle}, draw : Draws]
    /\ chosen = NoChoice

ChooseTechnique ==
    /\ choosePc = "called"
    /\ choosePc' = "returned"
    /\ chosen' = chooseTechnique(chooseArgs.style, chooseArgs.draw)
    /\ UNCHANGED chooseArgs
    /\ OnlyChanges("choose")

(***************************************************************************)
(* C8: for every style that has a profile and every draw r in              *)
(* [0, totalWeight), chooseTechnique returns the first entry of the        *)
(* style's profile whose weight exceeds the remaining r when walking the   *)
(* list; the fall-through default is never returned for a known style, and *)
(* style Carola yields only Long Blend, Bass Swap or Slow EQ Blend.        *)
(***************************************************************************)
\* the sum of the weights of the first k entries
RECURSIVE CumulativeWeight(_, _)
CumulativeWeight(profile, k) ==
    IF k = 0 THEN 0 ELSE CumulativeWeight(profile, k - 1) + profile[k].weight

ChoiceFromProfile ==
    (choosePc = "returned" /\ chooseArgs.style \in KnownStyles) =>
        LET profile == STYLE_PROFILES[chooseArgs.style]
            r == chooseArgs.draw * totalWeight(profile)
        IN /\ chosen.entry \in 1..Len(profile)
           /\ chosen.tech = profile[chosen.entry].tech
           /\ r < CumulativeWeight(profile, chosen.entry) * RandomSteps
           /\ r >= CumulativeWeight(profile, chosen.entry - 1) * RandomSteps
           /\ chooseArgs.style = "CAROLA" =>
                 chosen.tech \in {"LONG_BLEND", "BASS_SWAP", "SLOW_EQ_BLEND"}

ChoiceFromProfileWitness ==
    /\ choosePc = "returned"
    /\ chooseArgs.style = "CAROLA"
    /\ chosen.tech = "SLOW_EQ_BLEND"
    /\ chosen.entry = 3

(***************************************************************************)
(* InternalTimeStretcher.process (mixEngine.ts).                           *)
(* A speed ratio is the fraction num / den; a buffer is [id, length].      *)
(***************************************************************************)
winSize == 4096
overlap == 2
hopSize == winSize \div overlap

\* if (Math.abs(speed - 1.0) < 0.001) return buffer;
isIdentitySpeedMutant(speed) == speed.num = speed.den
isIdentitySpeed(speed) == Abs(speed.num - speed.den) * 1000 < speed.den

\* const anaHop = Math.floor(hopSize * speed);
anaHop(speed) == (hopSize * speed.num) \div speed.den

\* const newLength = Math.floor(buffer.length / speed);
newLengthMutant(length, speed) == (length * speed.num) \div speed.den
newLength(length, speed) == (length * speed.den) \div speed.num

\* while (outPos < newLength - winSize && inPos < buffer.length - winSize)
\* the (inPos, outPos) of every iteration, in order
RECURSIVE olaLoopMutant(_, _, _, _, _, _)
olaLoopMutant(inPos, outPos, length, newLen, hop, visited) ==
    IF outPos < newLen /\ inPos < length
    THEN olaLoopMutant(inPos + hop, outPos + hopSize, length, newLen, hop,
                       Append(visited, [inPos |-> inPos, outPos |-> outPos]))
    ELSE visited

RECURSIVE olaLoop(_, _, _, _, _, _)
olaLoop(inPos, outPos, length, newLen, hop, visited) ==
    IF outPos < newLen - winSize /\ inPos < length - winSize
    THEN olaLoop(inPos + hop, outPos + hopSize, length, newLen, hop,
                 Append(visited, [inPos |-> inPos, outPos |-> outPos]))
    ELSE visited

\* the buffer ctx.createBuffer returns is a new object
NewBufferId == 0

process(buffer, speed) ==
    IF isIdentitySpeed(speed)
    THEN [buffer |-> buffer, visited |-> <<>>]
    ELSE [buffer |-> [id |-> NewBufferId, length |-> newLength(buffer.length, speed)],
          visited |-> olaLoop(0, 0, buffer.length, newLength(buffer.length, speed),
                              anaHop(speed), <<>>)]

BufferLengths == {0, 1, 1000, 4096, 4097, 8192, 10000, 12290, 20001, 44100}
\* ratios TARGET_BPM / originalBpm and others, none exactly 0.001 from 1
Speeds ==
    { [num |-> 1, den |-> 1], [num |-> 2, den |-> 1], [num |-> 1, den |-> 2],
      [num |-> 3, den |-> 1], [num |-> 1, den |-> 3],
      [num |-> 125, den |-> 120], [num |-> 125, den |-> 130],
      [num |-> 12500, den |-> 12499], [num |-> 12500, den |-> 12506],
      [num |-> 10005, den |-> 10000], [num |-> 9995, den |-> 10000],
      [num |-> 12500, den |-> 12487], [num |-> 12500, den |-> 12513],
      [num |-> 12500, den |-> 16000], [num |-> 12500, den |-> 6000] }

NoStretchArgs == [buffer |-> [id |-> 0, length |-> 0], speed |-> [num |-> 1, den |-> 1]]
NoStretched == [buffer |-> [id |-> 0, length |-> 0], visited |-> <<>>]

StretchIdle ==
    stretchPc = "idle" /\ stretchArgs = NoStretchArgs /\ stretched = NoStretched

StretchInit ==
    /\ stretchPc = "called"
    /\ stretchArgs \in [buffer : [id : {1}, length : BufferLengths], speed : Speeds]
    /\ stretched = NoStretched

Process ==
    /\ stretchPc = "called"
    /\ stretchPc' = "returned"
    /\ stretched' = process(stretchArgs.buffer, stretchArgs.speed)
    /\ UNCHANGED stretchArgs
    /\ OnlyChanges("stretch")

\* q = floor(length / r) for the ratio r = num / den
IsFloorQuotient(q, length, r) ==
    q * r.num <= length * r.den /\ (q + 1) * r.num > length * r.den

ReadFollowsRatio ==
    stretchPc = "returned" =>
        \A k \in 1..Len(stretched.visited) :
            /\ hopSize = 2048
            /\ stretched.visited[k].outPos = (k - 1) * hopSize
            /\ stretched.visited[k].inPos =
                   ((k - 1) * hopSize * stretchArgs.speed.num) \div stretchArgs.speed.den

(***************************************************************************)
(* C30: for every input length L >= 0 and every ratio r > 0 with           *)
(* |r - 1| >= 0.001 the overlap-add loop ends: each iteration writes       *)
(* further than the one before and there are at most newLength / hopSize   *)
(* of them; every index an iteration reads, inPos .. inPos + winSize - 1,  *)
(* lies in [0, L) and every index it writes, outPos .. outPos + winSize -  *)
(* 1, lies in [0, floor(L / r)); an input shorter than the window has no   *)
(* iteration at all.                                                       *)
(***************************************************************************)
OlaLoopInRange ==
    (stretchPc = "returned" /\ ~isIdentitySpeed(stretchArgs.speed)) =>
        LET visited == stretched.visited
            L == stretchArgs.buffer.length
            newLen == stretched.buffer.length
        IN /\ IsFloorQuotient(newLen, L, stretchArgs.speed)
           /\ \A k \in 1..Len(visited) :
                  /\ 0 <= visited[k].inPos
                  /\ visited[k].inPos + winSize - 1 < L
                  /\ 0 <= visited[k].outPos
                  /\ visited[k].outPos + winSize - 1 < newLen
                  /\ k > 1 => visited[k].outPos > visited[k - 1].outPos
           /\ Len(visited) * hopSize <= Max(newLen, 0)
           /\ L < winSize => visited = <<>>

\* 19 iterations on 44100 samples at the ratio 125 / 120
OlaLoopInRangeWitness ==
    /\ stretchPc = "returned"
    /\ stretchArgs.buffer.length = 44100
    /\ stretchArgs.speed = [num |-> 125, den |-> 120]
    /\ Len(stretched.visited) = 19
    /\ stretched.visited[19].outPos = 18 * hopSize

(***************************************************************************)
(* C7: stretching with ratio 1.0, and with any ratio r where               *)
(* |r - 1| < 0.001, returns the input buffer itself unchanged: the same    *)
(* object, the same length, no resynthesis.                                *)
(***************************************************************************)
StretchIdentity ==
    LET r == stretchArgs.speed
    IN (stretchPc = "returned" /\ Abs(r.num - r.den) * 1000 < r.den) =>
          /\ stretched.buffer = stretchArgs.buffer
          /\ stretched.visited = <<>>

StretchIdentityWitness ==
    /\ stretchPc = "returned"
    /\ stretchArgs.speed = [num |-> 10005, den |-> 10000]
    /\ stretchArgs.buffer.length = 10000
    /\ stretched.buffer = stretchArgs.buffer

(***************************************************************************)
(* AnalysisEngine.detectCuePoints (mixEngine.ts).  Times are in ticks;     *)
(* an energy value is in thousandths.                                      *)
(***************************************************************************)

\* a || b on numbers: 0 (and undefined) is falsy
OrElse(a, b) == IF a = 0 THEN b ELSE a

\* downbeats.reduce((prev, curr) =>
\*     Math.abs(curr - target) < Math.abs(prev - target) ? curr : prev, init)
\* prev is replaced only by a strictly closer element, so the fold returns the
\* earliest element of <<init>> \o downbeats at the least distance from target.
nearestTo(downbeats, target, init) ==
    LET at(k) == IF k = 0 THEN init ELSE downbeats[k]
        dist(k) == Abs(at(k) - target)
        best == CHOOSE k \in 0..Len(downbeats) :
                    \A j \in 0..Len(downbeats) :
                        dist(k) < dist(j) \/ (dist(k) = dist(j) /\ k <= j)
    IN at(best)

\* for (i = floor(samples * 0.2); i < floor(samples * 0.7); i++) mainSum += low[i]
\* (0-based i is low[i + 1] here)
\* summed by halves: the sum does not depend on the order
RECURSIVE sumRange(_, _, _)
sumRange(low, from, to) ==
    IF from >= to THEN 0
    ELSE IF to = from + 1 THEN low[from + 1]
    ELSE LET mid == (from + to) \div 2
         IN sumRange(low, from, mid) + sumRange(low, mid, to)

\* currentAvg < dropThreshold, with currentAvg = (low[i]+low[i+1]+low[i+2]) / 3,
\* dropThreshold = mainAvg * 0.6, mainAvg = mainSum / mainCount, or 0.5 if mainCount = 0
belowThreshold(low, i, mainSum, mainCount) ==
    LET sum3 == low[i + 1] + low[i + 2] + low[i + 3]
    IN IF mainCount > 0
       THEN sum3 * 5 * mainCount < 9 * mainSum
       ELSE sum3 * 10 < 9 * 1000

\* for (i = searchStartIndex; i < samples - 5; i++) { if (...) { outroTime = ...; break } }
\* the index of the first sample below the threshold, or -1
firstDrop(low, searchStartIndex, mainSum, mainCount) ==
    LET hits == {i \in searchStartIndex..(Len(low) - 6) :
                    belowThreshold(low, i, mainSum, mainCount)}
    IN IF hits = {} THEN -1 ELSE CHOOSE i \in hits : \A j \in hits : i <= j

\* step 2: outroTime
outroTime(low, duration) ==
    LET samples == Len(low)
        from == (samples * 2) \div 10
        to == (samples * 7) \div 10
        mainCount == IF to > from THEN to - from ELSE 0
        i == firstDrop(low, to, sumRange(low, from, to), mainCount)
    IN IF i < 0 THEN duration - Sec(15) ELSE (i * duration) \div samples

\* "Snap to Grid", then the two clamps of endPoint
endPointOf(downbeats, outro, duration) ==
    LET init == IF downbeats = <<>> THEN duration
                ELSE OrElse(downbeats[Len(downbeats)], duration)
        nearestDownbeat == nearestTo(downbeats, outro, init)
        clamped == IF nearestDownbeat > duration - Sec(5)
                   THEN duration - Sec(5) ELSE nearestDownbeat
    IN IF clamped * 10 < duration * 6 THEN (duration * 9) \div 10 ELSE clamped

\* step 3: the loop region
loopRegionOf(beatGrid, startPoint, endPoint, duration) ==
    LET loopDuration == 16 * idealInterval(beatGrid.bpm)
        loopStart0 == endPoint - loopDuration
        snapLoopStart == nearestTo(beatGrid.downbeats, loopStart0, loopStart0)
        loopStart1 == IF Abs(snapLoopStart - loopStart0) < Sec(2)
                      THEN snapLoopStart ELSE loopStart0
        loopStart == IF loopStart1 < startPoint
                     THEN Max(0, duration - Sec(30)) ELSE loopStart1
        loopEnd == IF endPoint <= loopStart THEN duration ELSE endPoint
    IN [start |-> loopStart, end |-> loopEnd]

detectCuePoints(beatGrid, low, duration) ==
    IF Len(low) = 0
    THEN [start |-> 0, end |-> duration - Sec(15),
          loopRegion |-> [start |-> duration - Sec(20), end |-> duration - Sec(15)]]
    ELSE LET startPoint == IF Len(beatGrid.downbeats) > 0
                           THEN beatGrid.downbeats[1] ELSE 0
             endPoint == endPointOf(beatGrid.downbeats, outroTime(low, duration),
                                    duration)
             loop == loopRegionOf(beatGrid, startPoint, endPoint, duration)
         IN [start |-> startPoint, end |-> loop.end, loopRegion |-> loop]

\* the number of buckets of a computed energy profile
segments == 200

\* Energy profiles: empty, or `segments` buckets at `level` that fall to `low`
\* from bucket dropAt on.
StepProfile(level, dropAt, lowLevel) ==
    [i \in 1..segments |-> IF i - 1 < dropAt THEN level ELSE lowLevel]

EnergyProfiles ==
    {<<>>} \cup {StepProfile(300, k, 50) : k \in {0, 100, 141, 170, 200}}
           \cup {StepProfile(300, 188, 170)}

CueDurationsSec == {1, 8, 12, 20, 26, 33, 47, 60}
CueBpms == {60, 125}
CueOffsetsMs == {-1, 0, 130}

NoCueArgs == [beatGrid |-> EmptyGrid, low |-> <<>>, duration |-> 0]
NoCuePoints == [start |-> 0, end |-> 0, loopRegion |-> [start |-> 0, end |-> 0]]

CueIdle == cuePc = "idle" /\ cueArgs = NoCueArgs /\ cuePoints = NoCuePoints

CueInit ==
    /\ cuePc = "called"
    /\ \E bpm \in CueBpms, d \in CueDurationsSec, o \in CueOffsetsMs,
          low \in EnergyProfiles :
          cueArgs = [beatGrid |-> getLockedGrid(<<>>, bpm, Sec(d), Ms(o)),
                     low |-> low, duration |-> Sec(d)]
    /\ cuePoints = NoCuePoints

DetectCuePoints ==
    /\ cuePc = "called"
    /\ cuePc' = "returned"
    /\ cuePoints' = detectCuePoints(cueArgs.beatGrid, cueArgs.low, cueArgs.duration)
    /\ UNCHANGED cueArgs
    /\ OnlyChanges("cue")

(***************************************************************************)
(* C4: for every analysis produced by detectCuePoints (any grid with       *)
(* bpm > 0, any energy profile including the empty one, any duration > 0,  *)
(* short tracks included) the cue points satisfy                           *)
(* 0 <= start < loopRegion.start <= loopRegion.end <= end <= duration.     *)
(***************************************************************************)
CueOrdering ==
    cuePc = "returned" =>
        /\ 0 <= cuePoints.start
        /\ cuePoints.start < cuePoints.loopRegion.start
        /\ cuePoints.loopRegion.start <= cuePoints.loopRegion.end
        /\ cuePoints.loopRegion.end <= cuePoints.end
        /\ cuePoints.end <= cueArgs.duration

(***************************************************************************)
(* C25: with loopStart = endPoint - 16 * (60/bpm), where endPoint is the   *)
(* outro after its snap and clamps: when a downbeat nearest to loopStart   *)
(* lies within 2 s of it, the loop region starts at such a downbeat;       *)
(* otherwise it starts at loopStart.  (Stated for loopStart >= the start   *)
(* cue, where the later fallback to duration - 30 s does not apply.)       *)
(***************************************************************************)
LoopStartSnapped ==
    (cuePc = "returned" /\ Len(cueArgs.low) > 0) =>
        LET downbeats == cueArgs.beatGrid.downbeats
            startPoint == IF Len(downbeats) > 0 THEN downbeats[1] ELSE 0
            endPoint == endPointOf(downbeats, outroTime(cueArgs.low, cueArgs.duration),
                                   cueArgs.duration)
            loopStart == endPoint - 16 * ((60 * TPS) \div cueArgs.beatGrid.bpm)
            nearest == {d \in {downbeats[k] : k \in 1..Len(downbeats)} :
                           \A k \in 1..Len(downbeats) :
                               Abs(d - loopStart) <= Abs(downbeats[k] - loopStart)}
        IN loopStart >= startPoint =>
               IF \E d \in nearest : Abs(d - loopStart) < Sec(2)
               THEN cuePoints.loopRegion.start \in nearest
               ELSE cuePoints.loopRegion.start = loopStart

(***************************************************************************)
(* The App (App.tsx): its state, the upload and the batch analysis, and    *)
(* the mix request it makes to MixEngine.renderMix (mixEngine.ts).         *)
(* A track carries the fields the handlers and the engine read.  Cue       *)
(* times and durations are in ticks, originalBpm in whole BPM, gains in    *)
(* hundredths.  Mix-timeline times are in mix ticks: TPS * TARGET_BPM to   *)
(* the second, so that a cue time scaled by originalBpm / TARGET_BPM is    *)
(* exact.  Sample data is not modelled.                                    *)
(***************************************************************************)

\* Bound of the model: the number of tracks of a session
MaxTracks == 2

TARGET_BPM == 125
\* (60 / TARGET_BPM) * 4 seconds
BAR_DURATION == 240 * TPS
\* seconds in mix ticks
MixSec(s) == s * TPS * TARGET_BPM

\* The audio files of the model: what a successful analysis finds in each.
AudioFiles == {"a.mp3", "b.mp3", "c.mp3"}
contentOf(file) ==
    IF file = "a.mp3"
    THEN [bpm |-> 125, seconds |-> 60, low |-> StepProfile(300, 170, 50), gain |-> 100]
    ELSE IF file = "b.mp3"
    THEN [bpm |-> 120, seconds |-> 47, low |-> <<>>, gain |-> 150]
    ELSE [bpm |-> 125, seconds |-> 10, low |-> <<>>, gain |-> 100]

NoCues == [start |-> 0, end |-> 0, loopRegion |-> [start |-> 0, end |-> 0]]

\* the TrackMetadata handleFileUpload creates for a file
pendingTrack(id, file) ==
    [id |-> id, file |-> file, status |-> "PENDING", duration |-> 0,
     originalBpm |-> 0, cuePoints |-> NoCues, gainFactor |-> 100]

\* the TrackMetadata analyzeTrack / analyzeLite return for a decoded file
metadataOf(id, file) ==
    LET content == contentOf(file)
        duration == Sec(content.seconds)
        beatGrid == getLockedGrid(<<>>, content.bpm, duration, 0)
    IN [id |-> id, file |-> file, status |-> "READY", duration |-> duration,
        originalBpm |-> content.bpm,
        cuePoints |-> detectCuePoints(beatGrid, content.low, duration),
        gainFactor |-> content.gain]

\* the analysis of each file, computed once; the result keeps the trackId
Analyses == [file \in AudioFiles |-> metadataOf(0, file)]
readyTrack(id, file) == [Analyses[file] EXCEPT !.id = id]

\* analyzedTracks[i].status = ...
withStatus(track, status) == [track EXCEPT !.status = status]

\* the values of processLog
InitialLog == <<"">>
InitializingLog == <<"Initializing Essentia.js WASM + BeatParser...">>
AnalyzingLog == <<"Analyzing & Gridding: ">>
AnalysisErrorLog(message) == <<"Error on ", message>>
AnalysisCompleteLog == <<"Analysis Complete. Review Playlist.">>
NoValidTracksLog == <<"Error: No valid tracks to mix. Check analysis results.">>
OfflineContextLog == <<"Initializing OfflineAudioContext...">>
RenderErrorLog(message) == <<"Error rendering mix: ", message>>

\* the messages of the errors thrown
DecodeFailed == "Audio Decoding Failed"
AnalysisCrashed == "analysis failed"
NoValidTracks == "No valid tracks to mix."
NoProcessedTracks == "Failed to process any tracks."
RenderFailed == "rendering failed"

NoMixResult == [duration |-> 0, transitionPoints |-> <<>>, techniquesUsed |-> <<>>,
                style |-> "none"]
NoMixArgs == [tracks |-> <<>>, style |-> "none", targetBpm |-> 0]
NoAnalysis == [kind |-> "none", message |-> "", metadata |-> pendingTrack(0, "")]

\* the styles the mix is requested with
MixStyles == {"CAROLA", "MILLS", "SANCHEZ", "SIMS"}

AppIdle ==
    /\ currentStep = 0 /\ tracks = <<>> /\ isProcessing = FALSE
    /\ analysisComplete = FALSE /\ processLog = InitialLog
    /\ selectedStyle = "CAROLA" /\ mixResult = NoMixResult
    /\ analysisPc = "idle" /\ analyzedTracks = <<>> /\ analysisIndex = 0
    /\ analyzeCalls = <<>> /\ analysis = NoAnalysis
    /\ mixPc = "idle" /\ mixCaller = "App" /\ mixArgs = NoMixArgs
    /\ prepared = 0 /\ processedTracks = <<>> /\ timelineEvents = <<>>
    /\ cursor = 0 /\ mixTotalDuration = 0 /\ mixThrown = "" /\ mixReturn = NoMixResult
    /\ schedule = <<>>

(***************************************************************************)
(* MixEngine.renderMix                                                     *)
(***************************************************************************)
\* tracks.filter(t => t.status === 'READY' && t.originalBpm > 0)
isValidTrack(t) == t.status = "READY" /\ t.originalBpm > 0
validTracksOf(ts) == SelectSeq(ts, isValidTrack)

\* if (validTracks.length === 0) throw new Error("No valid tracks to mix.")
noValidTracksMutant(validTracks) == FALSE
noValidTracks(validTracks) == Len(validTracks) = 0

getOverlapBarsMutant(tech) == 32

getOverlapBars(tech) ==
    CASE tech = "HARD_CUT" -> 0
      [] tech = "DROP_SWAP" -> 8
      [] tech = "ECHO_OUT" -> 4
      [] tech = "LOOP_ECHO" -> 8
      [] tech = "FILTER_SWEEP" -> 16
      [] tech = "BASS_SWAP" -> 32
      [] tech = "SLOW_EQ_BLEND" -> 32
      [] tech = "PHRASE_MIXING" -> 32
      [] tech = "LONG_BLEND" -> 64
      [] OTHER -> 32

\* raw * scaleFactor with scaleFactor = 1 / tempo, from ticks to mix ticks;
\* tempo is TARGET_BPM / originalBpm, so TARGET_BPM / tempo is a whole number
toStretchedTime(raw, speed) == raw * ((speed.den * TARGET_BPM) \div speed.num)

\* one iteration of the timeline loop: the event pushed for processedTracks[i]
\* (trackIndex is i - 1) when the cursor is at `at` and Math.random() gives draw
timelineEvent(processed, i, style, draw, at) ==
    LET pTrack == processed[i]
        hasNext == i < Len(processed)
        technique == IF hasNext THEN chooseTechnique(style, draw).tech
                     ELSE "SLOW_EQ_BLEND"
        overlapBars == IF hasNext THEN getOverlapBars(technique) ELSE 0
        cues == pTrack.metadata.cuePoints
        rawCueStart == OrElse(cues.start, 0)
        rawCueEnd == OrElse(cues.end, pTrack.metadata.duration)
        rawLoopStart == OrElse(cues.loopRegion.start, 0)
        rawLoopEnd == OrElse(cues.loopRegion.end, 0)
    IN [trackIndex |-> i - 1,
        startTime |-> at,
        bufferOffsetStart |-> toStretchedTime(rawCueStart, pTrack.tempo),
        bufferOffsetEnd |-> toStretchedTime(rawCueEnd, pTrack.tempo),
        bufferLoopStart |-> toStretchedTime(rawLoopStart, pTrack.tempo),
        bufferLoopEnd |-> toStretchedTime(rawLoopEnd, pTrack.tempo),
        overlapTime |-> overlapBars * BAR_DURATION,
        technique |-> technique,
        gain |-> OrElse(pTrack.metadata.gainFactor, 100)]

\* const eventDuration = bufferOffsetEnd - bufferOffsetStart
eventDuration(event) == event.bufferOffsetEnd - event.bufferOffsetStart

\* "Update cursor"
advanceMutant(at, event, hasNext) == at + eventDuration(event)
advance(at, event, hasNext) ==
    IF hasNext THEN at + (eventDuration(event) - event.overlapTime)
    ELSE at + eventDuration(event)

\* the MixResult returned: duration, metadata
mixResultOf(events, duration, style) ==
    [duration |-> duration,
     transitionPoints |-> [k \in 1..Len(events) |-> events[k].startTime],
     techniquesUsed |-> [k \in 1..Len(events) |-> events[k].technique],
     style |-> style]

\* the frame of a renderMix call that has not run yet
NoMixFrame ==
    /\ prepared' = 0 /\ processedTracks' = <<>> /\ timelineEvents' = <<>>
    /\ cursor' = 0 /\ mixTotalDuration' = 0 /\ mixThrown' = "" /\ mixReturn' = NoMixResult
    /\ schedule' = <<>>

\* renderMix, entry: the filter and the first guard
RenderMix ==
    /\ mixPc = "called"
    /\ IF noValidTracks(validTracksOf(mixArgs.tracks))
       THEN mixPc' = "thrown" /\ mixThrown' = NoValidTracks
       ELSE mixPc' = "prepare" /\ UNCHANGED mixThrown
    /\ UNCHANGED <<mixCaller, mixArgs, prepared, processedTracks, timelineEvents,
                   cursor, mixTotalDuration, mixReturn, schedule>>
    /\ UNCHANGED <<appState, batchVars>>
    /\ OnlyChanges("app")

\* "Pre-process all tracks", one iteration: loadBuffer resolves or rejects;
\* a track whose buffer loaded is stretched by tempo = TARGET_BPM / originalBpm
PrepareTrack ==
    /\ mixPc = "prepare"
    /\ prepared < Len(validTracksOf(mixArgs.tracks))
    /\ \E loaded \in BOOLEAN :
          LET track == validTracksOf(mixArgs.tracks)[prepared + 1]
              speed == [num |-> TARGET_BPM, den |-> track.originalBpm]
          IN processedTracks' =
                 IF loaded
                 THEN Append(processedTracks, [metadata |-> track, tempo |-> speed])
                 ELSE processedTracks
    /\ prepared' = prepared + 1
    /\ UNCHANGED <<mixPc, mixCaller, mixArgs, timelineEvents, cursor, mixTotalDuration,
                   mixThrown, mixReturn, schedule>>
    /\ UNCHANGED <<appState, batchVars>>
    /\ OnlyChanges("app")

\* the end of the preparation: the second guard, then cursor = 0 and no events
StartTimeline ==
    /\ mixPc = "prepare"
    /\ prepared = Len(validTracksOf(mixArgs.tracks))
    /\ IF Len(processedTracks) = 0
       THEN mixPc' = "thrown" /\ mixThrown' = NoProcessedTracks
       ELSE mixPc' = "timeline" /\ UNCHANGED mixThrown
    /\ cursor' = 0
    /\ timelineEvents' = <<>>
    /\ UNCHANGED <<mixCaller, mixArgs, prepared, processedTracks, mixTotalDuration,
                   mixReturn, schedule>>
    /\ UNCHANGED <<appState, batchVars>>
    /\ OnlyChanges("app")

\* "Build Timeline", one iteration of the loop
BuildEvent ==
    /\ mixPc = "timeline"
    /\ Len(timelineEvents) < Len(processedTracks)
    /\ \E draw \in Draws :
          LET i == Len(timelineEvents) + 1
              event == timelineEvent(processedTracks, i, mixArgs.style, draw, cursor)
          IN /\ timelineEvents' = Append(timelineEvents, event)
             /\ cursor' = advance(cursor, event, i < Len(processedTracks))
    /\ UNCHANGED <<mixPc, mixCaller, mixArgs, prepared, processedTracks, mixTotalDuration,
                   mixThrown, mixReturn, schedule>>
    /\ UNCHANGED <<appState, batchVars>>
    /\ OnlyChanges("app")

(***************************************************************************)
(* renderMix, "Schedule Events": what the loop asks of the offline context *)
(* for each timeline event.  Every time of the model is a finite number,   *)
(* so isFinite(...) holds.  The Web Audio calls start(when, offset) and    *)
(* setValueAtTime(value, time) throw a RangeError for a negative time.     *)
(***************************************************************************)
ScheduleRangeError == "RangeError"

\* no automation pass
NoAutomation == [tech |-> "none", isOutgoing |-> FALSE, start |-> 0, end |-> 0,
                 baseGain |-> 0]

\* applyStemAutomation(tech, isOutgoing, ctx, strip, start, duration, baseGain):
\* the pass and its window, const end = start + duration
applyStemAutomation(tech, isOutgoing, start, duration, baseGain) ==
    [tech |-> tech, isOutgoing |-> isOutgoing, start |-> start, end |-> start + duration,
     baseGain |-> baseGain]

\* const wallDuration = event.bufferOffsetEnd - event.bufferOffsetStart
wallDurationOf(event) == event.bufferOffsetEnd - event.bufferOffsetStart

\* if (!isFirst): the pass of the incoming track, from the previous event
incomingAutomationMutant(events, event) ==
    applyStemAutomation(event.technique, FALSE, event.startTime, event.overlapTime,
                        event.gain)

incomingAutomation(events, event) ==
    LET prevEvent == events[event.trackIndex]
    IN applyStemAutomation(prevEvent.technique, FALSE, event.startTime,
                           prevEvent.overlapTime, event.gain)

\* if (!isLast): the pass of the outgoing track
outgoingAutomation(event) ==
    LET transStart == event.startTime + wallDurationOf(event) - event.overlapTime
    IN applyStemAutomation(event.technique, TRUE, transStart, event.overlapTime,
                           event.gain)

\* the guard of the schedule: the event is played, or skipped by `continue`
isPlayed(event) == wallDurationOf(event) > 0

NoLoopTail == [from |-> 0, offset |-> 0, to |-> 0, loopStart |-> 0, loopEnd |-> 0]

needsLoopTail(event) ==
    /\ event.technique \in {"LOOP_ECHO", "ECHO_OUT", "DROP_SWAP"}
    /\ event.bufferLoopEnd > event.bufferLoopStart

\* loopSource.start(mainEnd, bufferLoopStart); loopSource.stop(mainEnd + tailLen)
loopTailOfMutant(event) ==
    LET mainEnd == event.startTime + wallDurationOf(event)
    IN [from |-> mainEnd, offset |-> event.bufferLoopStart, to |-> mainEnd + MixSec(8),
        loopStart |-> event.bufferLoopStart, loopEnd |-> event.bufferLoopEnd]

loopTailOf(event) ==
    LET mainEnd == event.startTime + wallDurationOf(event)
        tailLen == IF event.technique = "LOOP_ECHO" THEN MixSec(16) ELSE MixSec(8)
    IN [from |-> mainEnd, offset |-> event.bufferLoopStart, to |-> mainEnd + tailLen,
        loopStart |-> event.bufferLoopStart, loopEnd |-> event.bufferLoopEnd]

\* one iteration of the loop over timelineEvents, for events[k]: the calls made
\* until the iteration ends, is left by `continue`, or a call throws
scheduleEvent(events, k) ==
    LET event == events[k]
        isFirst == event.trackIndex = 0
        isLast == event.trackIndex = Len(events) - 1
        incoming == IF isFirst THEN NoAutomation ELSE incomingAutomation(events, event)
        outgoing == IF isLast THEN NoAutomation ELSE outgoingAutomation(event)
        tail == IF ~isLast /\ needsLoopTail(event) THEN loopTailOf(event) ELSE NoLoopTail
        none == [trackIndex |-> event.trackIndex, kind |-> "dropped", when |-> 0,
                 offset |-> 0, stopAt |-> 0, incoming |-> NoAutomation,
                 outgoing |-> NoAutomation, loopTail |-> NoLoopTail]
        started == [none EXCEPT !.when = event.startTime,
                                !.offset = event.bufferOffsetStart,
                                !.stopAt = event.startTime + wallDurationOf(event),
                                !.incoming = incoming]
    IN IF ~isPlayed(event) THEN none
       ELSE IF event.startTime < 0 \/ event.bufferOffsetStart < 0
            THEN [none EXCEPT !.kind = "thrown"]
       ELSE IF outgoing # NoAutomation /\ outgoing.start < 0
            THEN [started EXCEPT !.kind = "thrown"]
       ELSE IF tail # NoLoopTail /\ tail.offset < 0
            THEN [started EXCEPT !.kind = "thrown", !.outgoing = outgoing]
       ELSE [started EXCEPT !.kind = "scheduled", !.outgoing = outgoing,
                            !.loopTail = tail]

(***************************************************************************)
(* The automation of a strip's channelGain and auxSend parameters.  Levels *)
(* are in thousandths (a baseGain of 100 hundredths is 1000), times in mix *)
(* ticks.  An AudioParam keeps its events ordered by time; an event added  *)
(* at a time that already has events is placed behind them.                *)
(***************************************************************************)
Milli(hundredths) == hundredths * 10

setValueAtTime(value, time) == [kind |-> "set", value |-> value, time |-> time]
linearRampToValueAtTime(value, time) == [kind |-> "linear", value |-> value, time |-> time]
exponentialRampToValueAtTime(value, time) == [kind |-> "exponential", value |-> value, time |-> time]

\* the calls one pass of applyStemAutomation makes on channelGain.gain
channelGainCalls(pass) ==
    LET start == pass.start
        end == pass.end
        duration == pass.end - pass.start
        baseGain == Milli(pass.baseGain)
        dropPoint == start + (duration \div 10) * 9
        reset == IF pass.isOutgoing THEN <<>> ELSE <<setValueAtTime(0, start)>>
        byTechnique ==
            CASE pass.tech = "BASS_SWAP" ->
                   IF pass.isOutgoing
                   THEN <<setValueAtTime(baseGain, start),
                          setValueAtTime(baseGain, end - MixSec(1)),
                          linearRampToValueAtTime(0, end)>>
                   ELSE <<setValueAtTime(0, start),
                          linearRampToValueAtTime(baseGain, start + MixSec(4))>>
              [] pass.tech \in {"ECHO_OUT", "LOOP_ECHO"} ->
                   IF pass.isOutgoing
                   THEN <<setValueAtTime(baseGain, start),
                          setValueAtTime(baseGain, end - MixSec(1) \div 10),
                          exponentialRampToValueAtTime(1, end)>>
                   ELSE <<setValueAtTime(0, start),
                          linearRampToValueAtTime(baseGain, start + MixSec(2))>>
              [] pass.tech = "DROP_SWAP" ->
                   IF pass.isOutgoing
                   THEN <<setValueAtTime(baseGain, start),
                          setValueAtTime(baseGain, dropPoint),
                          linearRampToValueAtTime(0, dropPoint + MixSec(1) \div 10)>>
                   ELSE <<setValueAtTime(0, start),
                          setValueAtTime(0, dropPoint),
                          linearRampToValueAtTime(baseGain, dropPoint + MixSec(1) \div 10)>>
              [] OTHER ->
                   \* LONG_BLEND, PHRASE_MIXING, FILTER_SWEEP and the default
                   IF pass.isOutgoing
                   THEN <<setValueAtTime(baseGain, start),
                          linearRampToValueAtTime(0, end)>>
                   ELSE <<setValueAtTime(0, start),
                          linearRampToValueAtTime(baseGain, end)>>
    IN IF pass = NoAutomation THEN <<>> ELSE reset \o byTechnique

\* the calls one pass of applyStemAutomation makes on auxSend.gain
auxSendCalls(pass) ==
    LET reset == IF pass.isOutgoing THEN <<>> ELSE <<setValueAtTime(0, pass.start)>>
        byTechnique ==
            IF pass.tech \in {"ECHO_OUT", "LOOP_ECHO"} /\ pass.isOutgoing
            THEN <<setValueAtTime(0, pass.end - MixSec(2)),
                   linearRampToValueAtTime(1000, pass.end)>>
            ELSE <<>>
    IN IF pass = NoAutomation THEN <<>> ELSE reset \o byTechnique

\* the event list of a parameter after the calls, in the order they were made
RECURSIVE paramTimeline(_, _)
paramTimeline(timeline, callsMade) ==
    IF callsMade = <<>> THEN timeline
    ELSE LET e == Head(callsMade)
             k == Cardinality({i \in 1..Len(timeline) : timeline[i].time <= e.time})
         IN paramTimeline(SubSeq(timeline, 1, k) \o <<e>> \o
                              SubSeq(timeline, k + 1, Len(timeline)),
                          Tail(callsMade))

\* whether the parameter's computed value at time t is above 0: the value of
\* the last event at or before t (the default value when there is none), or a
\* point of the ramp towards the next event when that one is a ramp
isAboveZeroAt(timeline, defaultValue, t) ==
    LET k == Cardinality({i \in 1..Len(timeline) : timeline[i].time <= t})
        v0 == IF k = 0 THEN defaultValue ELSE timeline[k].value
        t0 == IF k = 0 THEN 0 ELSE timeline[k].time
    IN IF k < Len(timeline) /\ timeline[k + 1].kind = "linear"
       THEN v0 > 0 \/ (timeline[k + 1].value > 0 /\ t > t0)
       ELSE v0 > 0

\* the two parameters of the strip of a scheduled event: the event's gain at
\* its start, then the incoming pass, then the outgoing pass
channelGainOf(event, entry) ==
    paramTimeline(<<>>, <<setValueAtTime(Milli(event.gain), event.startTime)>> \o
                        channelGainCalls(entry.incoming) \o
                        channelGainCalls(entry.outgoing))
auxSendOf(entry) ==
    paramTimeline(<<>>, auxSendCalls(entry.incoming) \o auxSendCalls(entry.outgoing))

\* createChannelStrip: channelGain = ctx.createGain(), auxSend.gain.value = 0
DefaultChannelGain == 1000
DefaultAuxSend == 0

\* "Render Offline": totalDuration and the offline context with its master
\* chain, before the first event is scheduled
StartRender ==
    /\ mixPc = "timeline"
    /\ Len(timelineEvents) = Len(processedTracks)
    /\ mixTotalDuration' = Max(cursor + MixSec(10), MixSec(10))
    /\ schedule' = <<>>
    /\ mixPc' = "schedule"
    /\ UNCHANGED <<mixCaller, mixArgs, prepared, processedTracks, timelineEvents,
                   cursor, mixThrown, mixReturn>>
    /\ UNCHANGED <<appState, batchVars>>
    /\ OnlyChanges("app")

\* "Schedule Events", one iteration of the loop
ScheduleEvent ==
    /\ mixPc = "schedule"
    /\ Len(schedule) < Len(timelineEvents)
    /\ LET entry == scheduleEvent(timelineEvents, Len(schedule) + 1)
       IN /\ schedule' = Append(schedule, entry)
          /\ IF entry.kind = "thrown"
             THEN mixPc' = "thrown" /\ mixThrown' = ScheduleRangeError
             ELSE UNCHANGED <<mixPc, mixThrown>>
    /\ UNCHANGED <<mixCaller, mixArgs, prepared, processedTracks, timelineEvents,
                   cursor, mixTotalDuration, mixReturn>>
    /\ UNCHANGED <<appState, batchVars>>
    /\ OnlyChanges("app")

\* await offlineCtx.startRendering(), called after the last event
StartRendering ==
    /\ mixPc = "schedule"
    /\ Len(schedule) = Len(timelineEvents)
    /\ mixPc' = "rendering"
    /\ UNCHANGED <<mixCaller, mixArgs, prepared, processedTracks, timelineEvents,
                   cursor, mixTotalDuration, mixThrown, mixReturn, schedule>>
    /\ UNCHANGED <<appState, batchVars>>
    /\ OnlyChanges("app")

\* startRendering settles: the WAV and the MixResult, or the rejection
FinishRender ==
    /\ mixPc = "rendering"
    /\ \E rendered \in BOOLEAN :
          IF rendered
          THEN /\ mixPc' = "returned"
               /\ mixReturn' = mixResultOf(timelineEvents, mixTotalDuration, mixArgs.style)
               /\ UNCHANGED mixThrown
          ELSE /\ mixPc' = "thrown"
               /\ mixThrown' = RenderFailed
               /\ UNCHANGED mixReturn
    /\ UNCHANGED <<mixCaller, mixArgs, prepared, processedTracks, timelineEvents,
                   cursor, mixTotalDuration, schedule>>
    /\ UNCHANGED <<appState, batchVars>>
    /\ OnlyChanges("app")

(***************************************************************************)
(* App.generateMix                                                         *)
(***************************************************************************)
\* tracks.filter(t => t.status === 'READY')
isReady(t) == t.status = "READY"

\* the click on CREATE MIX (step 2, enabled unless isProcessing): the guard,
\* then the call of renderMix
GenerateMix ==
    /\ currentStep = 2
    /\ ~isProcessing
    /\ mixPc = "idle"
    /\ IF Len(SelectSeq(tracks, isReady)) = 0
       THEN /\ processLog' = NoValidTracksLog
            /\ UNCHANGED <<isProcessing, mixVars>>
       ELSE /\ isProcessing' = TRUE
            /\ processLog' = OfflineContextLog
            /\ mixPc' = "called"
            /\ mixCaller' = "App"
            /\ mixArgs' = [tracks |-> tracks, style |-> selectedStyle, targetBpm |-> 125]
            /\ NoMixFrame
    /\ UNCHANGED <<currentStep, tracks, analysisComplete, selectedStyle, mixResult>>
    /\ UNCHANGED batchVars
    /\ OnlyChanges("app")

\* renderMix resolved: setMixResult, setCurrentStep(3), finally
MixFulfilled ==
    /\ mixPc = "returned"
    /\ mixCaller = "App"
    /\ mixResult' = mixReturn
    /\ currentStep' = 3
    /\ isProcessing' = FALSE
    /\ mixPc' = "idle"
    /\ mixArgs' = NoMixArgs
    /\ NoMixFrame
    /\ UNCHANGED <<tracks, analysisComplete, processLog, selectedStyle, mixCaller>>
    /\ UNCHANGED batchVars
    /\ OnlyChanges("app")

\* renderMix rejected: catch, finally
MixRejected ==
    /\ mixPc = "thrown"
    /\ mixCaller = "App"
    /\ processLog' = RenderErrorLog(mixThrown)
    /\ isProcessing' = FALSE
    /\ mixPc' = "idle"
    /\ mixArgs' = NoMixArgs
    /\ NoMixFrame
    /\ UNCHANGED <<currentStep, tracks, analysisComplete, selectedStyle, mixResult,
                   mixCaller>>
    /\ UNCHANGED batchVars
    /\ OnlyChanges("app")

\* the click on a style (step 2)
SelectStyle ==
    /\ currentStep = 2
    /\ \E style \in MixStyles : selectedStyle' = style
    /\ UNCHANGED <<currentStep, tracks, isProcessing, analysisComplete, processLog,
                   mixResult>>
    /\ UNCHANGED <<batchVars, mixVars>>
    /\ OnlyChanges("app")

\* the click on START NEW SESSION (step 3, with a mix result)
NewSession ==
    /\ currentStep = 3
    /\ mixResult # NoMixResult
    /\ currentStep' = 0
    /\ tracks' = <<>>
    /\ mixResult' = NoMixResult
    /\ analysisComplete' = FALSE
    /\ analyzeCalls' = <<>>
    /\ UNCHANGED <<isProcessing, processLog, selectedStyle>>
    /\ UNCHANGED <<analysisPc, analyzedTracks, analysisIndex, analysis>>
    /\ UNCHANGED mixVars
    /\ OnlyChanges("app")

(***************************************************************************)
(* App.handleFileUpload and App.startAnalysis                              *)
(***************************************************************************)
\* the file input (step 0): the files chosen are appended as PENDING tracks
HandleFileUpload ==
    /\ currentStep = 0
    /\ \E n \in 1..(MaxTracks - Len(tracks)) :
          \E files \in [1..n -> AudioFiles] :
              tracks' = tracks \o [k \in 1..n |-> pendingTrack(Len(tracks) + k, files[k])]
    /\ UNCHANGED <<currentStep, isProcessing, analysisComplete, processLog,
                   selectedStyle, mixResult>>
    /\ UNCHANGED <<batchVars, mixVars>>
    /\ OnlyChanges("app")

\* the click on START ANALYSIS (step 0, shown when there are tracks): the
\* handler up to its loop
StartAnalysis ==
    /\ currentStep = 0
    /\ Len(tracks) > 0
    /\ analysisPc \in {"idle", "done"}
    /\ isProcessing' = TRUE
    /\ analysisComplete' = FALSE
    /\ currentStep' = 1
    /\ processLog' = InitializingLog
    /\ analyzedTracks' = tracks
    /\ analysisIndex' = 1
    /\ analysisPc' = "loop"
    /\ analyzeCalls' = <<>>
    /\ UNCHANGED <<tracks, selectedStyle, mixResult, analysis>>
    /\ UNCHANGED mixVars
    /\ OnlyChanges("app")

\* one iteration of the loop up to its await: a PENDING track is marked
\* ANALYZING, published, and handed to analyzeTrack; any other track is skipped
AnalyzeNext ==
    /\ analysisPc = "loop"
    /\ analysisIndex <= Len(analyzedTracks)
    /\ IF analyzedTracks[analysisIndex].status = "PENDING"
       THEN LET marked == [analyzedTracks EXCEPT ![analysisIndex] =
                               withStatus(@, "ANALYZING")]
            IN /\ processLog' = AnalyzingLog
               /\ analyzedTracks' = marked
               /\ tracks' = marked
               /\ analysisPc' = "analyzing"
               /\ UNCHANGED analysisIndex
       ELSE /\ analysisIndex' = analysisIndex + 1
            /\ UNCHANGED <<processLog, analyzedTracks, tracks, analysisPc>>
    /\ UNCHANGED <<currentStep, isProcessing, analysisComplete, selectedStyle, mixResult>>
    /\ UNCHANGED <<analyzeCalls, analysis>>
    /\ UNCHANGED mixVars
    /\ OnlyChanges("app")

\* analysisEngine.analyzeTrack(file, id) settles: the READY metadata of the
\* file, or the decode error, or another exception
AnalyzeTrack ==
    /\ analysisPc = "analyzing"
    /\ \E outcome \in {"READY", DecodeFailed, AnalysisCrashed} :
          LET track == analyzedTracks[analysisIndex]
          IN /\ analysis' =
                    IF outcome = "READY"
                    THEN [kind |-> "resolved", message |-> "",
                          metadata |-> readyTrack(track.id, track.file)]
                    ELSE [kind |-> "rejected", message |-> outcome,
                          metadata |-> pendingTrack(0, "")]
             /\ analyzeCalls' = Append(analyzeCalls, [id |-> track.id, outcome |-> outcome])
    /\ analysisPc' = "settled"
    /\ UNCHANGED <<appState, analyzedTracks, analysisIndex>>
    /\ UNCHANGED mixVars
    /\ OnlyChanges("app")

\* catch (err): analyzedTracks[i].status = 'ERROR'
markErrorMutant(list, i) ==
    [k \in 1..Len(list) |-> IF k >= i THEN withStatus(list[k], "ERROR") ELSE list[k]]
markError(list, i) == [list EXCEPT ![i] = withStatus(@, "ERROR")]

\* the rest of the iteration: the metadata replaces the track, or the catch
\* marks it; the list is published and the loop goes on
AnalysisSettled ==
    /\ analysisPc = "settled"
    /\ LET after == IF analysis.kind = "resolved"
                    THEN [analyzedTracks EXCEPT ![analysisIndex] = analysis.metadata]
                    ELSE markError(analyzedTracks, analysisIndex)
       IN /\ analyzedTracks' = after
          /\ tracks' = after
    /\ processLog' = IF analysis.kind = "resolved" THEN processLog
                     ELSE AnalysisErrorLog(analysis.message)
    /\ analysis' = NoAnalysis
    /\ analysisIndex' = analysisIndex + 1
    /\ analysisPc' = "loop"
    /\ UNCHANGED <<currentStep, isProcessing, analysisComplete, selectedStyle, mixResult>>
    /\ UNCHANGED analyzeCalls
    /\ UNCHANGED mixVars
    /\ OnlyChanges("app")

\* after the loop: the log, setAnalysisComplete(true), and the finally
FinishAnalysis ==
    /\ analysisPc = "loop"
    /\ analysisIndex > Len(analyzedTracks)
    /\ processLog' = AnalysisCompleteLog
    /\ analysisComplete' = TRUE
    /\ isProcessing' = FALSE
    /\ analysisPc' = "done"
    /\ analyzedTracks' = <<>>
    /\ analysisIndex' = 0
    /\ UNCHANGED <<currentStep, tracks, selectedStyle, mixResult>>
    /\ UNCHANGED <<analyzeCalls, analysis>>
    /\ UNCHANGED mixVars
    /\ OnlyChanges("app")

\* the click on CONFIGURE PLAYLIST (step 1, shown once the analysis is complete)
ConfigurePlaylist ==
    /\ currentStep = 1
    /\ ~isProcessing
    /\ analysisComplete
    /\ currentStep' = 2
    /\ UNCHANGED <<tracks, isProcessing, analysisComplete, processLog, selectedStyle,
                   mixResult>>
    /\ UNCHANGED <<batchVars, mixVars>>
    /\ OnlyChanges("app")

\* the state of the App at its first render
AppInit == AppIdle

\* a track as a finished batch leaves it
analysedTrack(id, file, ok) ==
    IF ok THEN readyTrack(id, file) ELSE withStatus(pendingTrack(id, file), "ERROR")

\* The App at step 2 after a batch over 1..MaxTracks files, before the first
\* mix request; or the same with renderMix, a public method of the exported
\* mixEngine, entered on these tracks without generateMix's guard.
MixInit ==
    /\ currentStep = 2 /\ isProcessing = FALSE /\ analysisComplete = TRUE
    /\ processLog = AnalysisCompleteLog /\ mixResult = NoMixResult
    /\ selectedStyle \in MixStyles
    /\ \E n \in 1..MaxTracks :
          \E files \in [1..n -> AudioFiles], oks \in [1..n -> BOOLEAN] :
              /\ tracks = [i \in 1..n |-> analysedTrack(i, files[i], oks[i])]
              /\ analyzeCalls = [i \in 1..n |->
                                    [id |-> i,
                                     outcome |-> IF oks[i] THEN "READY" ELSE DecodeFailed]]
    /\ analysisPc = "done" /\ analyzedTracks = <<>> /\ analysisIndex = 0
    /\ analysis = NoAnalysis
    /\ \/ mixPc = "idle" /\ mixCaller = "App" /\ mixArgs = NoMixArgs
       \/ /\ mixPc = "called" /\ mixCaller = "other"
          /\ mixArgs = [tracks |-> tracks, style |-> selectedStyle, targetBpm |-> 125]
    /\ prepared = 0 /\ processedTracks = <<>> /\ timelineEvents = <<>>
    /\ cursor = 0 /\ mixTotalDuration = 0 /\ mixThrown = "" /\ mixReturn = NoMixResult
    /\ schedule = <<>>

\* The same with a longer set, MaxTracks + 1 tracks that are all READY: the
\* shortest set in which a track has a predecessor and a successor.
LongSetFiles == {"a.mp3", "b.mp3"}
LongSetInit ==
    /\ currentStep = 2 /\ isProcessing = FALSE /\ analysisComplete = TRUE
    /\ processLog = AnalysisCompleteLog /\ mixResult = NoMixResult
    /\ selectedStyle \in MixStyles
    /\ \E files \in [1..(MaxTracks + 1) -> LongSetFiles] :
          /\ tracks = [i \in 1..(MaxTracks + 1) |-> analysedTrack(i, files[i], TRUE)]
          /\ analyzeCalls = [i \in 1..(MaxTracks + 1) |-> [id |-> i, outcome |-> "READY"]]
    /\ analysisPc = "done" /\ analyzedTracks = <<>> /\ analysisIndex = 0
    /\ analysis = NoAnalysis
    /\ \/ mixPc = "idle" /\ mixCaller = "App" /\ mixArgs = NoMixArgs
       \/ /\ mixPc = "called" /\ mixCaller = "other"
          /\ mixArgs = [tracks |-> tracks, style |-> selectedStyle, targetBpm |-> 125]
    /\ prepared = 0 /\ processedTracks = <<>> /\ timelineEvents = <<>>
    /\ cursor = 0 /\ mixTotalDuration = 0 /\ mixThrown = "" /\ mixReturn = NoMixResult
    /\ schedule = <<>>

(***************************************************************************)
(* C3: in the timeline renderMix builds, every event that has a successor  *)
(* is followed by one that starts at its own start + eventDuration -       *)
(* overlapTime, where eventDuration = bufferOffsetEnd - bufferOffsetStart  *)
(* and both offsets are the track's cues in stretched time (the raw cue    *)
(* times originalBpm / TARGET_BPM); once the last event is pushed the      *)
(* cursor stands at its start + its full eventDuration.                    *)
(***************************************************************************)
TimelineOverlap ==
    LET n == Len(timelineEvents)
        inStretchedTime(i) ==
            LET metadata == processedTracks[i].metadata
                from == IF metadata.cuePoints.start = 0 THEN 0
                        ELSE metadata.cuePoints.start
                to == IF metadata.cuePoints.end = 0 THEN metadata.duration
                      ELSE metadata.cuePoints.end
            IN /\ timelineEvents[i].bufferOffsetStart = from * metadata.originalBpm
               /\ timelineEvents[i].bufferOffsetEnd = to * metadata.originalBpm
    IN /\ n <= Len(processedTracks)
       /\ \A i \in 1..n : inStretchedTime(i)
       /\ \A i \in 1..(n - 1) :
             timelineEvents[i + 1].startTime =
                 timelineEvents[i].startTime
                     + (timelineEvents[i].bufferOffsetEnd
                            - timelineEvents[i].bufferOffsetStart)
                     - timelineEvents[i].overlapTime
       /\ (n > 0 /\ n = Len(processedTracks)) =>
             cursor = timelineEvents[n].startTime
                          + (timelineEvents[n].bufferOffsetEnd
                                 - timelineEvents[n].bufferOffsetStart)

\* a finished timeline of two events, the first of a track stretched from
\* 120 BPM, with an overlap
TimelineOverlapWitness ==
    /\ mixPc = "returned"
    /\ Len(timelineEvents) = 2
    /\ processedTracks[1].metadata.originalBpm = 120
    /\ timelineEvents[1].overlapTime > 0
    /\ timelineEvents[2].startTime # 0

(***************************************************************************)
(* C9: when no track is READY, a mix request fails with the error          *)
(* "No valid tracks to mix": renderMix prepares no track, builds no        *)
(* timeline, starts no render and returns no result; the App's mixResult   *)
(* stays unset and the App does not reach the Export step.                 *)
(***************************************************************************)
NoValidTracksFails ==
    (\A i \in 1..Len(tracks) : tracks[i].status # "READY") =>
        /\ mixPc \in {"idle", "called", "thrown"}
        /\ mixPc = "thrown" => mixThrown = NoValidTracks
        /\ processLog \in {AnalysisCompleteLog, NoValidTracksLog,
                           RenderErrorLog(NoValidTracks)}
        /\ prepared = 0 /\ processedTracks = <<>>
        /\ timelineEvents = <<>> /\ mixTotalDuration = 0
        /\ mixReturn = NoMixResult
        /\ mixResult = NoMixResult
        /\ currentStep # 3

\* every track of the batch ended in ERROR and renderMix has thrown
NoValidTracksFailsWitness ==
    /\ Len(tracks) = MaxTracks
    /\ \A i \in 1..Len(tracks) : tracks[i].status = "ERROR"
    /\ mixPc = "thrown"
    /\ mixThrown = NoValidTracks

(***************************************************************************)
(* C10: a batch analysis that has started finishes; when it has, no track  *)
(* is PENDING or ANALYZING, analysisComplete is set and isProcessing is    *)
(* cleared, analyzeTrack was called once for every track in order, and a   *)
(* track is ERROR exactly when its own call failed: a failure does not     *)
(* touch the other tracks nor stop the loop.                               *)
(***************************************************************************)
\* the batch has just finished
BatchFinished == analysisPc = "done" /\ currentStep = 1

BatchOutcome ==
    BatchFinished =>
        /\ analysisComplete
        /\ ~isProcessing
        /\ Len(analyzeCalls) = Len(tracks)
        /\ \A i \in 1..Len(tracks) :
              /\ tracks[i].status \in {"READY", "ERROR"}
              /\ analyzeCalls[i].id = tracks[i].id
              /\ tracks[i].status = "ERROR" <=> analyzeCalls[i].outcome # "READY"

BatchIsolation ==
    /\ []BatchOutcome
    /\ (analysisPc \in {"loop", "analyzing", "settled"}) ~> BatchFinished

\* a finished batch whose first track failed to decode and whose last is READY
BatchIsolationWitness ==
    /\ BatchFinished
    /\ Len(tracks) = MaxTracks
    /\ tracks[1].status = "ERROR"
    /\ analyzeCalls[1].outcome = DecodeFailed
    /\ tracks[MaxTracks].status = "READY"

(***************************************************************************)
(* C19: every event of the timeline that is not the last track's has       *)
(* overlapTime = bars(technique) * 4 * 60 / targetBpm seconds, targetBpm   *)
(* being the target tempo of the configuration renderMix was given and     *)
(* bars the table Hard Cut 0, Echo Out 4, Drop Swap and Loop Echo 8,       *)
(* Filter Sweep 16, Bass Swap, Slow EQ and Phrase Mixing 32, Long Blend    *)
(* 64, anything else 32; the last track's event has the default blend      *)
(* technique and overlapTime 0.                                            *)
(***************************************************************************)
statedBars(tech) ==
    IF tech = "HARD_CUT" THEN 0
    ELSE IF tech = "ECHO_OUT" THEN 4
    ELSE IF tech \in {"DROP_SWAP", "LOOP_ECHO"} THEN 8
    ELSE IF tech = "FILTER_SWEEP" THEN 16
    ELSE IF tech \in {"BASS_SWAP", "SLOW_EQ_BLEND", "PHRASE_MIXING"} THEN 32
    ELSE IF tech = "LONG_BLEND" THEN 64
    ELSE 32

\* 4 * 60 / targetBpm seconds, in mix ticks
statedBarDuration(targetBpm) == MixSec(4 * 60) \div targetBpm

OverlapFromTable ==
    \A i \in 1..Len(timelineEvents) :
        LET event == timelineEvents[i]
        IN IF i < Len(processedTracks)
           THEN /\ MixSec(4 * 60) % mixArgs.targetBpm = 0
                /\ event.overlapTime =
                       statedBars(event.technique) * statedBarDuration(mixArgs.targetBpm)
           ELSE /\ event.technique = "SLOW_EQ_BLEND"
                /\ event.overlapTime = 0

\* a finished timeline whose first event overlaps by a whole number of bars
OverlapFromTableWitness ==
    /\ Len(timelineEvents) = Len(processedTracks)
    /\ Len(timelineEvents) >= 2
    /\ timelineEvents[1].technique = "PHRASE_MIXING"
    /\ timelineEvents[1].overlapTime = 32 * statedBarDuration(mixArgs.targetBpm)
    /\ timelineEvents[Len(timelineEvents)].overlapTime = 0

(***************************************************************************)
(* C14: when exactly one event of the timeline has a non-positive          *)
(* duration (and every other event lasts at least as long as its overlap), *)
(* the schedule drops that event only: no call of the schedule throws,     *)
(* every other event is started at a time >= 0 and gets its automation     *)
(* passes, and the total duration is the cursor plus the 10 s tail, at     *)
(* least 10 s.                                                             *)
(***************************************************************************)
isDegenerate(event) == wallDurationOf(event) <= 0

scheduleEnded ==
    /\ Len(timelineEvents) = Len(processedTracks)
    /\ \/ mixPc \in {"rendering", "returned"}
       \/ mixPc = "thrown" /\ Len(schedule) > 0

oneDegenerateEvent ==
    /\ Cardinality({i \in 1..Len(timelineEvents) : isDegenerate(timelineEvents[i])}) = 1
    /\ \A i \in 1..Len(timelineEvents) :
          \/ isDegenerate(timelineEvents[i])
          \/ wallDurationOf(timelineEvents[i]) >= timelineEvents[i].overlapTime

OnlyDegenerateEventDropped ==
    (scheduleEnded /\ oneDegenerateEvent) =>
        /\ mixThrown # ScheduleRangeError
        /\ Len(schedule) = Len(timelineEvents)
        /\ mixTotalDuration >= MixSec(10)
        /\ \A i \in 1..Len(schedule) :
              IF isDegenerate(timelineEvents[i])
              THEN schedule[i].kind = "dropped"
              ELSE /\ schedule[i].kind = "scheduled"
                   /\ schedule[i].when >= 0
                   /\ i > 1 => schedule[i].incoming # NoAutomation
                   /\ i < Len(schedule) => schedule[i].outgoing # NoAutomation

(***************************************************************************)
(* C20: for two consecutive events that were both scheduled, the outgoing  *)
(* pass of the first has the first event's technique and the window        *)
(* [end - overlapTime, end] (end = startTime + wallDuration), the incoming *)
(* pass of the second has the same technique and the window                *)
(* [startTime, startTime + overlapTime] with the first event's             *)
(* overlapTime, and the two windows are the same interval.                 *)
(***************************************************************************)
BoundaryWindows ==
    \A i \in 1..(Len(schedule) - 1) :
        (schedule[i].kind = "scheduled" /\ schedule[i + 1].kind = "scheduled") =>
            LET out == timelineEvents[i]
                inc == timelineEvents[i + 1]
                outEnd == out.startTime + wallDurationOf(out)
            IN /\ schedule[i].outgoing =
                      [tech |-> out.technique, isOutgoing |-> TRUE,
                       start |-> outEnd - out.overlapTime, end |-> outEnd,
                       baseGain |-> out.gain]
               /\ schedule[i + 1].incoming =
                      [tech |-> out.technique, isOutgoing |-> FALSE,
                       start |-> inc.startTime, end |-> inc.startTime + out.overlapTime,
                       baseGain |-> inc.gain]
               /\ schedule[i].outgoing.start = schedule[i + 1].incoming.start
               /\ schedule[i].outgoing.end = schedule[i + 1].incoming.end

\* two events scheduled with a transition of 16 bars between them
BoundaryWindowsWitness ==
    /\ mixPc = "rendering"
    /\ Len(schedule) = 2
    /\ schedule[1].kind = "scheduled" /\ schedule[2].kind = "scheduled"
    /\ timelineEvents[1].technique = "FILTER_SWEEP"
    /\ schedule[2].incoming.tech = "FILTER_SWEEP"
    /\ schedule[2].incoming.end - schedule[2].incoming.start = 16 * BAR_DURATION

(***************************************************************************)
(* C21: an iteration of the scheduling loop that ran to its end scheduled  *)
(* a loop tail exactly when it scheduled the event's clip, the event is    *)
(* not the last one, its technique is LOOP_ECHO, ECHO_OUT or DROP_SWAP and *)
(* its stretched loop end lies after its stretched loop start; the tail    *)
(* starts at startTime + wallDuration from the stretched loop start, loops *)
(* between the stretched loop bounds and stops 16 s later for LOOP_ECHO    *)
(* and 8 s later for the other two.                                        *)
(***************************************************************************)
LoopTailScheduled ==
    \A i \in 1..Len(schedule) :
        schedule[i].kind # "thrown" =>
            LET event == timelineEvents[i]
                mainEnd == event.startTime + wallDurationOf(event)
                tail == schedule[i].loopTail
                expected ==
                    /\ schedule[i].kind = "scheduled"
                    /\ i < Len(timelineEvents)
                    /\ event.technique \in {"LOOP_ECHO", "ECHO_OUT", "DROP_SWAP"}
                    /\ event.bufferLoopEnd > event.bufferLoopStart
            IN IF expected
               THEN /\ tail.from = mainEnd
                    /\ tail.offset = event.bufferLoopStart
                    /\ tail.loopStart = event.bufferLoopStart
                    /\ tail.loopEnd = event.bufferLoopEnd
                    /\ tail.to = mainEnd + (IF event.technique = "LOOP_ECHO"
                                            THEN MixSec(16) ELSE MixSec(8))
               ELSE tail = NoLoopTail

\* a LOOP_ECHO tail of 16 s behind the first of two scheduled clips
LoopTailScheduledWitness ==
    /\ mixPc = "rendering"
    /\ Len(schedule) = 2
    /\ schedule[1].kind = "scheduled"
    /\ timelineEvents[1].technique = "LOOP_ECHO"
    /\ schedule[1].loopTail.to - schedule[1].loopTail.from = MixSec(16)
    /\ schedule[1].loopTail.loopEnd > schedule[1].loopTail.loopStart
    /\ schedule[2].loopTail = NoLoopTail

(***************************************************************************)
(* C27: in the timeline renderMix builds every event starts at a time >= 0 *)
(* and no event starts before its predecessor: every event that has a      *)
(* successor has eventDuration >= overlapTime.                             *)
(***************************************************************************)
StartTimesOrdered ==
    \A i \in 1..Len(timelineEvents) :
        /\ timelineEvents[i].startTime >= 0
        /\ i > 1 => timelineEvents[i].startTime >= timelineEvents[i - 1].startTime
        /\ i < Len(processedTracks) =>
               eventDuration(timelineEvents[i]) >= timelineEvents[i].overlapTime

(***************************************************************************)
(* C29: the length of the offline render, max(cursor + 10 s, 10 s), is at  *)
(* least the end time of every clip the schedule loop started and the stop *)
(* time of every loop tail it started.                                     *)
(***************************************************************************)
DurationCoversSchedule ==
    \A i \in 1..Len(schedule) :
        schedule[i].kind = "scheduled" =>
            /\ schedule[i].stopAt <= mixTotalDuration
            /\ schedule[i].loopTail # NoLoopTail =>
                   schedule[i].loopTail.to <= mixTotalDuration

(***************************************************************************)
(* C28: for a scheduled event that has a predecessor and a successor, the  *)
(* window of its incoming pass, [start, start + the predecessor's          *)
(* overlapTime], ends no later than the window of its outgoing pass,       *)
(* [end - its own overlapTime, end], begins, and both windows lie inside   *)
(* [start, end], the interval in which its clip plays.                     *)
(***************************************************************************)
TransitionWindowsApart ==
    \A i \in 2..(Len(schedule) - 1) :
        (schedule[i].kind = "scheduled" /\ i < Len(timelineEvents)) =>
            LET inc == schedule[i].incoming
                out == schedule[i].outgoing
            IN /\ inc.end <= out.start
               /\ schedule[i].when <= inc.start /\ inc.end <= schedule[i].stopAt
               /\ schedule[i].when <= out.start /\ out.end <= schedule[i].stopAt

(***************************************************************************)
(* C22: whenever a loop tail was scheduled, at the start, in the middle    *)
(* and at the end of the tail's interval [end, end + tailLen] the strip of *)
(* the outgoing event has a channel gain above 0 or a delay-send level     *)
(* above 0, as its automation left them.                                   *)
(***************************************************************************)
LoopTailAudible ==
    \A i \in 1..Len(schedule) :
        (schedule[i].kind = "scheduled" /\ schedule[i].loopTail # NoLoopTail) =>
            LET tail == schedule[i].loopTail
                gain == channelGainOf(timelineEvents[i], schedule[i])
                send == auxSendOf(schedule[i])
            IN \A t \in {tail.from, (tail.from + tail.to) \div 2, tail.to} :
                   \/ isAboveZeroAt(gain, DefaultChannelGain, t)
                   \/ isAboveZeroAt(send, DefaultAuxSend, t)

(***************************************************************************)
(* C18: in every step of the App a track that stays in the list either     *)
(* keeps its record or moves PENDING -> ANALYZING or ANALYZING -> READY or *)
(* ERROR (same id and file); a READY or ERROR track is left exactly as it  *)
(* is by every step, the steps of startAnalysis, generateMix and renderMix *)
(* included.                                                               *)
(***************************************************************************)
statusStep(before, after) ==
    \/ after = before
    \/ /\ before.status = "PENDING"
       /\ after = withStatus(before, "ANALYZING")
    \/ /\ before.status = "ANALYZING"
       /\ after.status \in {"READY", "ERROR"}
       /\ after.id = before.id
       /\ after.file = before.file

StatusMonotone ==
    [][\A i \in 1..Min(Len(tracks), Len(tracks')) :
          /\ statusStep(tracks[i], tracks'[i])
          /\ tracks[i].status \in {"READY", "ERROR"} => tracks'[i] = tracks[i]]_vars

\* renderMix has returned the mix of a list with a READY and an ERROR track,
\* and the list is still the one generateMix passed to it
StatusMonotoneWitness ==
    /\ mixPc = "returned"
    /\ mixCaller = "App"
    /\ tracks = mixArgs.tracks
    /\ \E i, j \in 1..Len(tracks) :
          tracks[i].status = "READY" /\ tracks[j].status = "ERROR"

(***************************************************************************)
(* AnalysisEngine (mixEngine.ts): the lazy initialization of the backend   *)
(* and concurrent analyzeTrack calls on the one exported engine.  A run of *)
(* initializeEssentia is an entry of inits; initPromise is the index of    *)
(* the run it holds, 0 for null.  The analysis itself is reduced to the    *)
(* backend that produced it.                                               *)
(***************************************************************************)

\* Bound of the model: the number of analyzeTrack calls
MaxCalls == 2

\* the WASM mirrors
CDNS == <<"cdn.jsdelivr.net", "unpkg.com">>

NoCall == [pc |-> "idle", awaited |-> 0, backend |-> "none", crashed |-> FALSE,
           liteRuns |-> 0, status |-> "none", error |-> ""]

EngineIdle ==
    /\ scriptsLoaded = FALSE /\ initPromise = 0 /\ inits = <<>>
    /\ engineReady = FALSE /\ useLiteMode = FALSE /\ essentia = FALSE
    /\ calls = [c \in 1..MaxCalls |-> NoCall]

\* the engine as constructed, in a page where the global scripts loaded or not
EngineInit ==
    /\ scriptsLoaded \in BOOLEAN
    /\ initPromise = 0 /\ inits = <<>>
    /\ engineReady = FALSE /\ useLiteMode = FALSE /\ essentia = FALSE
    /\ calls = [c \in 1..MaxCalls |-> NoCall]

\* if (!this.initPromise)
needsInitMutant(promise) == TRUE
needsInit(promise) == promise = 0

\* "Switching to Lite Mode" / "Graceful degradation": the flags after a failure
initFailedMutant == [useLiteMode |-> FALSE, isReady |-> TRUE]
initFailed == [useLiteMode |-> TRUE, isReady |-> TRUE]

\* initializeEssentia up to its first await: the run it leaves
startedRun ==
    IF engineReady THEN [pc |-> "done", mirror |-> 0, outcome |-> "ready"]
    ELSE IF ~scriptsLoaded THEN [pc |-> "done", mirror |-> 0, outcome |-> "lite"]
    ELSE [pc |-> "fetching", mirror |-> 1, outcome |-> "none"]

\* the flags a run that ends in reduced mode leaves
Degrade ==
    /\ useLiteMode' = initFailed.useLiteMode
    /\ engineReady' = initFailed.isReady

\* analyzeTrack, entry: the initialization is started if no promise is held,
\* and the call awaits the promise held
CallAnalyzeTrack(c) ==
    /\ calls[c].pc = "idle"
    /\ IF needsInit(initPromise)
       THEN /\ inits' = Append(inits, startedRun)
            /\ initPromise' = Len(inits) + 1
            /\ IF startedRun.outcome = "lite" THEN Degrade
               ELSE UNCHANGED <<useLiteMode, engineReady>>
       ELSE UNCHANGED <<inits, initPromise, useLiteMode, engineReady>>
    /\ calls' = [calls EXCEPT ![c].pc = "awaitInit", ![c].awaited = initPromise']
    /\ UNCHANGED <<scriptsLoaded, essentia>>
    /\ OnlyChanges("engine")

\* fetch(url) of the current mirror settles: the binary, or the next mirror,
\* or "All WASM mirrors failed." and the catch
FetchSettled(r) ==
    /\ r \in 1..Len(inits)
    /\ inits[r].pc = "fetching"
    /\ \E loaded \in BOOLEAN :
          IF loaded
          THEN /\ inits' = [inits EXCEPT ![r].pc = "constructing"]
               /\ UNCHANGED <<useLiteMode, engineReady>>
          ELSE IF inits[r].mirror < Len(CDNS)
          THEN /\ inits' = [inits EXCEPT ![r].mirror = @ + 1]
               /\ UNCHANGED <<useLiteMode, engineReady>>
          ELSE /\ inits' = [inits EXCEPT ![r].pc = "done", ![r].outcome = "lite"]
               /\ Degrade
    /\ UNCHANGED <<scriptsLoaded, initPromise, essentia, calls>>
    /\ OnlyChanges("engine")

\* EssentiaWASM(...) settles and new Essentia(module) runs, or either throws
ModuleSettled(r) ==
    /\ r \in 1..Len(inits)
    /\ inits[r].pc = "constructing"
    /\ \E constructed \in BOOLEAN :
          IF constructed
          THEN /\ inits' = [inits EXCEPT ![r].pc = "done", ![r].outcome = "full"]
               /\ essentia' = TRUE
               /\ engineReady' = TRUE
               /\ UNCHANGED useLiteMode
          ELSE /\ inits' = [inits EXCEPT ![r].pc = "done", ![r].outcome = "lite"]
               /\ Degrade
               /\ UNCHANGED essentia
    /\ UNCHANGED <<scriptsLoaded, initPromise, calls>>
    /\ OnlyChanges("engine")

\* await this.initPromise resumes: the audio context, then the decode starts
InitAwaited(c) ==
    /\ calls[c].pc = "awaitInit"
    /\ inits[calls[c].awaited].pc = "done"
    /\ calls' = [calls EXCEPT ![c].pc = "decoding"]
    /\ UNCHANGED <<scriptsLoaded, initPromise, inits, engineReady, useLiteMode, essentia>>
    /\ OnlyChanges("engine")

\* analyzeLite is entered
enterLite(call) == [call EXCEPT !.pc = "lite", !.liteRuns = @ + 1]

\* catch (essentiaError): "Retrying with Lite Mode"
recoverFromCrashMutant(call) ==
    [call EXCEPT !.pc = "thrown", !.crashed = TRUE, !.error = AnalysisCrashed]
recoverFromCrash(call) == enterLite([call EXCEPT !.crashed = TRUE])

\* the decode settles: the decode error; or the branch on useLiteMode, and in
\* the full branch the Essentia extractors, which may throw (and do throw
\* without an Essentia instance), up to the await of the second detector
Decoded(c) ==
    /\ calls[c].pc = "decoding"
    /\ \E decoded \in BOOLEAN, extracted \in BOOLEAN :
          calls' = [calls EXCEPT ![c] =
              IF ~decoded
              THEN [@ EXCEPT !.pc = "thrown", !.error = DecodeFailed]
              ELSE IF useLiteMode
              THEN enterLite([@ EXCEPT !.backend = "lite"])
              ELSE IF extracted /\ essentia
              THEN [@ EXCEPT !.pc = "full", !.backend = "full"]
              ELSE recoverFromCrash([@ EXCEPT !.backend = "full"])]
    /\ UNCHANGED <<scriptsLoaded, initPromise, inits, engineReady, useLiteMode, essentia>>
    /\ OnlyChanges("engine")

\* the second detector settles (its failure is caught): the rest of the full
\* branch returns the READY metadata, or throws into the catch
FullSettled(c) ==
    /\ calls[c].pc = "full"
    /\ \E finished \in BOOLEAN :
          calls' = [calls EXCEPT ![c] =
              IF finished THEN [@ EXCEPT !.pc = "returned", !.status = "READY"]
              ELSE recoverFromCrash(@)]
    /\ UNCHANGED <<scriptsLoaded, initPromise, inits, engineReady, useLiteMode, essentia>>
    /\ OnlyChanges("engine")

\* analyzeLite: its detector settles (its failure is caught) and the READY
\* metadata is returned
LiteSettled(c) ==
    /\ calls[c].pc = "lite"
    /\ calls' = [calls EXCEPT ![c].pc = "returned", ![c].status = "READY"]
    /\ UNCHANGED <<scriptsLoaded, initPromise, inits, engineReady, useLiteMode, essentia>>
    /\ OnlyChanges("engine")

(***************************************************************************)
(* C11: however analyzeTrack calls interleave on the shared engine,        *)
(* initializeEssentia is started at most once; every call awaits that one  *)
(* run, goes on only when it is done, and then takes the backend the run   *)
(* ended with (the reduced one after a failure, the full one otherwise).   *)
(***************************************************************************)
InitializedOnce ==
    /\ Len(inits) <= 1
    /\ \A c \in 1..MaxCalls :
          /\ calls[c].pc # "idle" => (calls[c].awaited = 1 /\ initPromise = 1)
          /\ calls[c].pc \notin {"idle", "awaitInit"} => inits[1].pc = "done"
          /\ calls[c].backend # "none" =>
                calls[c].backend = IF inits[1].outcome = "lite" THEN "lite" ELSE "full"

\* every call waits while the one initialization is fetching
InitializedOnceWitness ==
    /\ Len(inits) = 1
    /\ inits[1].pc = "fetching"
    /\ \A c \in 1..MaxCalls : calls[c].pc = "awaitInit" /\ calls[c].awaited = 1

(***************************************************************************)
(* C12: once the initialization has ended in failure (scripts missing,     *)
(* every mirror failing, or the module construction throwing), the engine  *)
(* is and stays in reduced mode: no call fails because of it, every call   *)
(* takes the reduced backend, and no second initialization is started.     *)
(***************************************************************************)
ReducedModeIsPermanent ==
    (Len(inits) > 0 /\ inits[1].outcome = "lite") =>
        /\ useLiteMode
        /\ engineReady
        /\ Len(inits) = 1
        /\ initPromise = 1
        /\ \A c \in 1..MaxCalls :
              /\ calls[c].backend \in {"none", "lite"}
              /\ ~calls[c].crashed
              /\ calls[c].pc = "thrown" => calls[c].error = DecodeFailed

\* every mirror failed and every call has returned from the reduced backend
ReducedModeIsPermanentWitness ==
    /\ Len(inits) = 1
    /\ inits[1].outcome = "lite"
    /\ inits[1].mirror = Len(CDNS)
    /\ \A c \in 1..MaxCalls :
          calls[c].pc = "returned" /\ calls[c].backend = "lite" /\ calls[c].liteRuns = 1

(***************************************************************************)
(* C13: a call whose full backend threw does not fail: it runs the reduced *)
(* backend once and returns READY; useLiteMode stays false, so the other   *)
(* calls take the full backend.                                            *)
(***************************************************************************)
CrashFallsBackToLite ==
    \A c \in 1..MaxCalls :
        calls[c].crashed =>
            /\ calls[c].backend = "full"
            /\ calls[c].pc \in {"lite", "returned"}
            /\ calls[c].liteRuns = 1
            /\ calls[c].pc = "returned" => calls[c].status = "READY"
            /\ ~useLiteMode
            /\ \A d \in 1..MaxCalls : calls[d].backend \in {"none", "full"}

\* the first call crashed and returned; the last went through the full backend
CrashFallsBackToLiteWitness ==
    /\ calls[1].crashed
    /\ calls[1].pc = "returned"
    /\ calls[1].status = "READY"
    /\ ~calls[MaxCalls].crashed
    /\ calls[MaxCalls].backend = "full"
    /\ calls[MaxCalls].pc = "returned"

(***************************************************************************)
(* MixEngine.bufferToWave (mixEngine.ts): the 16-bit PCM WAV file of an    *)
(* AudioBuffer, as its bytes.  A sample x is the fraction x.num / x.den;   *)
(* the products and the truncation are exact for such values.  Channel     *)
(* data and files are kept as step functions: a value is given at the      *)
(* positions where it changes and holds up to the next such position.      *)
(***************************************************************************)
\* frames of the small buffers
MaxFrames == 2

\* the value of a step function at a position
stepValue(steps, at) ==
    steps[CHOOSE k \in DOMAIN steps :
              k <= at /\ \A j \in DOMAIN steps : j <= at => j <= k]

\* the step function of a sequence
asSteps(seq) ==
    [k \in {k \in 1..Len(seq) : k = 1 \/ seq[k] # seq[k - 1]} |-> seq[k]]

\* view.setUint16(pos, data, true) and view.setUint32(pos, data, true): the
\* bytes written, low byte first (data < 2^31 in every call of the model)
setUint16(data) == <<data % 256, (data \div 256) % 256>>
setUint32(data) ==
    <<data % 256, (data \div 256) % 256, (data \div 65536) % 256,
      (data \div 16777216) % 256>>

\* view.setInt16(pos, sample, true): the two's complement of sample, low byte first
setInt16(sample) == setUint16(sample % 65536)

\* x | 0 for |x| < 2^31: num / den truncated toward zero
truncate(num, den) == IF num >= 0 THEN num \div den ELSE -((-num) \div den)

\* Math.max(-1, Math.min(1, x))
clamp(x) ==
    IF x.num > x.den THEN [num |-> x.den, den |-> x.den]
    ELSE IF x.num < -x.den THEN [num |-> -x.den, den |-> x.den]
    ELSE x

\* (0.5 + sample < 0 ? sample * 32768 : sample * 32767) | 0, where
\* 0.5 + sample < 0 is (0.5 + sample) < 0
toInt16(x) ==
    IF x.den + 2 * x.num < 0
    THEN truncate(x.num * 32768, x.den)
    ELSE truncate(x.num * 32767, x.den)

\* length = len * numOfChan * 2 + 44
waveLengthMutant(len, numOfChan) == len * numOfChan * 2 + 40

waveLength(len, numOfChan) == len * numOfChan * 2 + 44

\* "WAV Header": the writes from pos = 0, in their order
waveHeader(abuffer, length) ==
    LET numOfChan == abuffer.numberOfChannels
        upToData ==
            setUint32(1179011410)                      \* 0x46464952 "RIFF"
            \o setUint32(length - 8)
            \o setUint32(1163280727)                   \* 0x45564157 "WAVE"
            \o setUint32(544501094)                    \* 0x20746d66 "fmt "
            \o setUint32(16)
            \o setUint16(1)                            \* PCM
            \o setUint16(numOfChan)
            \o setUint32(abuffer.sampleRate)
            \o setUint32(abuffer.sampleRate * 2 * numOfChan)
            \o setUint16(numOfChan * 2)
            \o setUint16(16)
            \o setUint32(1635017060)                   \* 0x61746164 "data"
    IN upToData \o setUint32(length - Len(upToData) - 4)

\* while (pos < length) { for each channel: clamp, scale, setInt16; offset++ }:
\* the passes of the outer loop from pos = 44
framesWritten(length, numOfChan) ==
    IF length <= 44 THEN 0
    ELSE ((length - 44) + 2 * numOfChan - 1) \div (2 * numOfChan)

\* the bytes the loop writes; byte k belongs to sample (k - 1) \div 2, which is
\* channel ((k - 1) \div 2) % numOfChan of frame offset + ((k - 1) \div 2) \div numOfChan
waveData(abuffer, offset, length) ==
    LET numOfChan == abuffer.numberOfChannels
        count == 2 * numOfChan * framesWritten(length, numOfChan)
    IN [k \in 1..count |->
           LET s == (k - 1) \div 2
               x == stepValue(abuffer.channels[(s % numOfChan) + 1],
                              offset + (s \div numOfChan) + 1)
           IN setInt16(toInt16(clamp(x)))[((k - 1) % 2) + 1]]

bufferToWave(abuffer, offset, len) ==
    LET length == waveLength(len, abuffer.numberOfChannels)
    IN waveHeader(abuffer, length) \o waveData(abuffer, offset, length)

\* Inputs of the encoder specification.
WaveSamples == {[num |-> n, den |-> 4] : n \in {-8, -1, 2, 8}}
WaveRates == {44100, 48000}
WaveChannelCounts == {1, 2}

\* one second of silence in stereo, as the offline context renders it
OneSecondSilence ==
    [numberOfChannels |-> 2, sampleRate |-> 44100, length |-> 44100,
     channels |-> [c \in 1..2 |-> [f \in {1} |-> [num |-> 0, den |-> 4]]]]

NoWaveArgs == [numberOfChannels |-> 0, sampleRate |-> 0, length |-> 0, channels |-> <<>>]

NoWave == [size |-> 0, bytes |-> <<>>]

WaveIdle == wavePc = "idle" /\ waveArgs = NoWaveArgs /\ wave = NoWave

\* renderMix: this.bufferToWave(renderedBuffer, 0, renderedBuffer.length), for
\* every buffer of up to MaxFrames frames and for OneSecondSilence
WaveInit ==
    /\ wavePc = "called"
    /\ \/ \E c \in WaveChannelCounts, s \in WaveRates, n \in 0..MaxFrames :
             \E ch \in [1..c -> [1..n -> WaveSamples]] :
                 waveArgs = [numberOfChannels |-> c, sampleRate |-> s, length |-> n,
                             channels |-> ch]
       \/ waveArgs = OneSecondSilence
    /\ wave = NoWave

BufferToWave ==
    /\ wavePc = "called"
    /\ wavePc' = "returned"
    /\ LET file == bufferToWave(waveArgs, 0, waveArgs.length)
       IN wave' = [size |-> Len(file), bytes |-> asSteps(file)]
    /\ UNCHANGED waveArgs
    /\ OnlyChanges("wave")

\* the byte of a file at byte offset at, and the unsigned and signed numbers
\* stored there low byte first
byteAt(file, at) == stepValue(file.bytes, at + 1)
uint16At(file, at) == byteAt(file, at) + 256 * byteAt(file, at + 1)
uint32At(file, at) ==
    byteAt(file, at) + 256 * byteAt(file, at + 1) + 65536 * byteAt(file, at + 2)
    + 16777216 * byteAt(file, at + 3)
int16At(file, at) ==
    IF uint16At(file, at) >= 32768 THEN uint16At(file, at) - 65536
    ELSE uint16At(file, at)

(***************************************************************************)
(* C15: the file of a buffer of n frames, c channels and sample rate s has *)
(* 44 + 2 * n * c bytes: "RIFF" at 0..3, the RIFF size total - 8, "WAVE"   *)
(* at 8..11, format 1 (PCM), byte rate s * 2 * c, block align 2 * c,       *)
(* 16 bits per sample and the data size total - 44; one second of stereo   *)
(* at 44100 Hz gives 176444 bytes with byte rate 176400.                   *)
(***************************************************************************)
WaveLayout ==
    wavePc = "returned" =>
        LET n == waveArgs.length
            c == waveArgs.numberOfChannels
            s == waveArgs.sampleRate
            total == wave.size
        IN /\ total = 44 + 2 * n * c
           /\ [k \in 1..4 |-> byteAt(wave, k - 1)] = <<82, 73, 70, 70>>
           /\ uint32At(wave, 4) = total - 8
           /\ [k \in 1..4 |-> byteAt(wave, 8 + k - 1)] = <<87, 65, 86, 69>>
           /\ uint16At(wave, 20) = 1
           /\ uint32At(wave, 28) = s * 2 * c
           /\ uint16At(wave, 32) = 2 * c
           /\ uint16At(wave, 34) = 16
           /\ uint32At(wave, 40) = total - 44
           /\ (n = 44100 /\ c = 2 /\ s = 44100) =>
                 (total = 176444 /\ uint32At(wave, 28) = 176400)

\* one second of stereo at 44100 Hz was encoded
WaveLayoutWitness ==
    /\ wavePc = "returned"
    /\ waveArgs = OneSecondSilence
    /\ wave.size = 176444
    /\ uint32At(wave, 28) = 176400

(***************************************************************************)
(* C16: every sample is clamped to [-1, 1] and stored as the 16-bit        *)
(* integer, low byte first, that truncation gives from the clamped value   *)
(* times 32768 when it is negative and times 32767 when it is not.         *)
(***************************************************************************)
SampleScaling ==
    wavePc = "returned" =>
        \A f \in 1..waveArgs.length, c \in 1..waveArgs.numberOfChannels :
            LET x == clamp(stepValue(waveArgs.channels[c], f))
                at == 44 + 2 * ((f - 1) * waveArgs.numberOfChannels + (c - 1))
            IN /\ -x.den <= x.num /\ x.num <= x.den
               /\ int16At(wave, at) =
                     truncate(x.num * (IF x.num < 0 THEN 32768 ELSE 32767), x.den)

(***************************************************************************)
(* Specifications: one per component, the other components idle.           *)
(***************************************************************************)
\* every component but g is idle
IdleBut(g) ==
    /\ IF g = "grid" THEN TRUE ELSE GridIdle
    /\ IF g = "tempo" THEN TRUE ELSE TempoIdle
    /\ IF g = "choose" THEN TRUE ELSE ChooseIdle
    /\ IF g = "stretch" THEN TRUE ELSE StretchIdle
    /\ IF g = "cue" THEN TRUE ELSE CueIdle
    /\ IF g = "app" THEN TRUE ELSE AppIdle
    /\ IF g = "engine" THEN TRUE ELSE EngineIdle
    /\ IF g = "wave" THEN TRUE ELSE WaveIdle

InitGrid == LET start == GridInit IN start /\ IdleBut("grid")
NextGrid == GetLockedGrid
SpecGrid == InitGrid /\ [][NextGrid]_vars

InitTempo == LET start == TempoInit IN start /\ IdleBut("tempo")
NextTempo ==
    \/ AnalyzeTempoFull
    \/ AnalyzeTempoLite
SpecTempo == InitTempo /\ [][NextTempo]_vars

InitChoose == LET start == ChooseInit IN start /\ IdleBut("choose")
NextChoose == ChooseTechnique
SpecChoose == InitChoose /\ [][NextChoose]_vars

InitStretch == LET start == StretchInit IN start /\ IdleBut("stretch")
NextStretch == Process
SpecStretch == InitStretch /\ [][NextStretch]_vars

InitCue == LET start == CueInit IN start /\ IdleBut("cue")
NextCue == DetectCuePoints
SpecCue == InitCue /\ [][NextCue]_vars

\* a call of bufferToWave
InitWave == LET start == WaveInit IN start /\ IdleBut("wave")
NextWave == BufferToWave
SpecWave == InitWave /\ [][NextWave]_vars

\* analyzeTrack calls on the shared engine
InitEngine == LET start == EngineInit IN start /\ IdleBut("engine")
NextEngine ==
    \/ \E c \in 1..MaxCalls : CallAnalyzeTrack(c)
    \/ \E r \in 1..MaxCalls : FetchSettled(r)
    \/ \E r \in 1..MaxCalls : ModuleSettled(r)
    \/ \E c \in 1..MaxCalls : InitAwaited(c)
    \/ \E c \in 1..MaxCalls : Decoded(c)
    \/ \E c \in 1..MaxCalls : FullSettled(c)
    \/ \E c \in 1..MaxCalls : LiteSettled(c)
SpecEngine == InitEngine /\ [][NextEngine]_vars

\* a mix request
InitMix == LET start == MixInit IN start /\ IdleBut("app")
NextMix ==
    \/ GenerateMix
    \/ RenderMix
    \/ PrepareTrack
    \/ StartTimeline
    \/ BuildEvent
    \/ StartRender
    \/ ScheduleEvent
    \/ StartRendering
    \/ FinishRender
    \/ MixFulfilled
    \/ MixRejected
SpecMix == InitMix /\ [][NextMix]_vars

\* a mix request on the longer set
InitLongSet == LET start == LongSetInit IN start /\ IdleBut("app")
SpecLongSet == InitLongSet /\ [][NextMix]_vars

\* a session of the App
InitApp == LET start == AppInit IN start /\ IdleBut("app")
NextAnalysis ==
    \/ AnalyzeNext
    \/ AnalyzeTrack
    \/ AnalysisSettled
    \/ FinishAnalysis
NextApp ==
    \/ HandleFileUpload
    \/ StartAnalysis
    \/ NextAnalysis
    \/ ConfigurePlaylist
    \/ SelectStyle
    \/ NextMix
    \/ NewSession
SpecApp == InitApp /\ [][NextApp]_vars
\* a settled promise runs its continuation, and analyzeTrack settles
SpecAppLive == SpecApp /\ WF_vars(NextAnalysis)

====
